---- MODULE Spec2Model ----
(***************************************************************************)
(* ptrace: trace archive reader, source parsers and event index.           *)
(*                                                                         *)
(*   SpecParser  - BrowserTraceParser.parse() consuming the runtime stream *)
(*                 one record at a time.                                   *)
(*   SpecIndex   - EventIndex over an archive: lazy build, then queries.   *)
(*   SpecArchive - TraceArchive resource access.                           *)
(***************************************************************************)
EXTENDS Integers, Sequences, FiniteSets, TLC

\* ------------------------------------------------------------------ bounds
MaxTime == 2
MaxStream == 3

\* --------------------------------------------------------------- constants
\* float("inf"): larger than every finite timestamp of the model.
Inf == 1000000
\* A key that the JSON record does not carry (dict.get falls to its default).
Absent == -1

Times == 0..MaxTime
CallIds == {"", "c1", "c2"}

\* dict.get(key, default)
Get(v, default) == IF v = Absent THEN default ELSE v

\* ------------------------------------------------------------ trace records
\* One decoded NDJSON record of 0-trace.trace / test.trace. `time` stands for
\* the record's own time key (time, startTime, endTime or timestamp).
Entry(type, callId, stepId, time, sha1) ==
    [type |-> type, callId |-> callId, stepId |-> stepId, time |-> time, sha1 |-> sha1,
     wall |-> Absent]

\* The context-options record of 0-trace.trace: monotonicTime and wallTime.
CtxEntry(monotonicTime, wallTime) ==
    [type |-> "context-options", callId |-> "", stepId |-> "", time |-> monotonicTime,
     sha1 |-> "", wall |-> wallTime]

\* One record of 0-trace.network: its type, and the snapshot's _monotonicTime
\* and startedDateTime (as epoch milliseconds; BadDate when it does not parse).
NetEntry(type, mono, started) == [type |-> type, mono |-> mono, started |-> started]
BadDate == -2

\* ------------------------------------------------------------------ events
Event(index, timestamp_ms, event_type, source_file, call_id, duration_ms, sha1) ==
    [index |-> index, timestamp_ms |-> timestamp_ms, event_type |-> event_type,
     source_file |-> source_file, call_id |-> call_id, duration_ms |-> duration_ms,
     sha1 |-> sha1]

\* --------------------------------------------------- BrowserTraceParser
\* Each _parse_* returns <<>> for None and <<event>> for an event.
_parse_console(entry, index) ==
    << Event(index, Get(entry.time, 0), "console", "0-trace.trace", "", 0, "") >>

\* mutant: the duration is the end time, the start time not subtracted
_parse_action_EndAsDuration(before, after, index) ==
    LET start_time == Get(before.time, 0)
        end_time == Get(after.time, start_time)
    IN  << Event(index, start_time, "action", "0-trace.trace", before.callId,
                 end_time, "") >>

_parse_action(before, after, index) ==
    LET start_time == Get(before.time, 0)
        end_time == Get(after.time, start_time)
        duration_ms == end_time - start_time
    IN  << Event(index, start_time, "action", "0-trace.trace", before.callId,
                 duration_ms, "") >>

_parse_screenshot(entry, index) ==
    IF entry.sha1 = "" THEN << >>
    ELSE << Event(index, Get(entry.time, 0), "screenshot", "0-trace.trace", "", 0,
                  entry.sha1) >>

_parse_log(entry, index) ==
    << Event(index, Get(entry.time, 0), "log", "0-trace.trace", "", 0, "") >>

_parse_input(entry, index) ==
    << Event(index, 0, "input", "0-trace.trace", "", 0, "") >>

\* State of one run of parse(): the pending map, the per-type counters and
\* the events yielded so far.
ParserInit ==
    [before_events |-> << >>, console_index |-> 0, action_index |-> 0,
     screenshot_index |-> 0, log_index |-> 0, input_index |-> 0, error_index |-> 0,
     out |-> << >>]

\* dict[key] = value
DictSet(d, k, v) == [x \in DOMAIN d \cup {k} |-> IF x = k THEN v ELSE d[x]]
\* del dict[key]
DictDel(d, k) == [x \in DOMAIN d \ {k} |-> d[x]]

\* mutant: a before whose call id is already pending is ignored, the earlier
\* one stays
OnBefore_KeepsEarlier(p, entry) ==
    LET call_id == entry.callId
    IN  IF call_id # "" /\ call_id \notin DOMAIN p.before_events
        THEN [p EXCEPT !.before_events = DictSet(p.before_events, call_id, entry)]
        ELSE p

\* elif event_type == "before"
OnBefore(p, entry) ==
    LET call_id == entry.callId
    IN  IF call_id # ""
        THEN [p EXCEPT !.before_events = DictSet(p.before_events, call_id, entry)]
        ELSE p

\* mutant: the paired before stays in the pending map
OnAfter_KeepsPending(p, entry) ==
    LET call_id == entry.callId
    IN  IF call_id \in DOMAIN p.before_events
        THEN LET event == _parse_action(p.before_events[call_id], entry, p.action_index)
             IN  [p EXCEPT !.out = p.out \o event,
                           !.action_index = p.action_index + Len(event)]
        ELSE p

\* elif event_type == "after"
OnAfter(p, entry) ==
    LET call_id == entry.callId
    IN  IF call_id \in DOMAIN p.before_events
        THEN LET event == _parse_action(p.before_events[call_id], entry, p.action_index)
             IN  [p EXCEPT !.out = p.out \o event,
                           !.action_index = p.action_index + Len(event),
                           !.before_events = DictDel(p.before_events, call_id)]
        ELSE p

\* One iteration of the loop of BrowserTraceParser.parse().
BrowserStep(p, entry) ==
    CASE entry.type = "console" ->
           LET event == _parse_console(entry, p.console_index)
           IN  [p EXCEPT !.out = p.out \o event,
                         !.console_index = p.console_index + Len(event)]
      [] entry.type = "before" -> OnBefore(p, entry)
      [] entry.type = "after" -> OnAfter(p, entry)
      [] entry.type = "screencast-frame" ->
           LET event == _parse_screenshot(entry, p.screenshot_index)
           IN  [p EXCEPT !.out = p.out \o event,
                         !.screenshot_index = p.screenshot_index + Len(event)]
      [] entry.type = "log" ->
           LET event == _parse_log(entry, p.log_index)
           IN  [p EXCEPT !.out = p.out \o event,
                         !.log_index = p.log_index + Len(event)]
      [] entry.type = "input" ->
           LET event == _parse_input(entry, p.input_index)
           IN  [p EXCEPT !.out = p.out \o event,
                         !.input_index = p.input_index + Len(event)]
      [] OTHER -> p

\* Python's `x or y` on strings
StrOr(x, y) == IF x # "" THEN x ELSE y

\* ------------------------------------------------------- TestTraceParser
\* mutant: an after without endTime ends the step at 0, not at its start
_parse_test_action_EndsAtZero(before, after, index) ==
    LET start_time == Get(before.time, 0)
        end_time == Get(after.time, 0)
        duration_ms == end_time - start_time
    IN  << Event(index, start_time, "action", "test.trace",
                 StrOr(before.callId, before.stepId), duration_ms, "") >>

_parse_test_action(before, after, index) ==
    LET start_time == Get(before.time, 0)
        end_time == Get(after.time, start_time)
        duration_ms == end_time - start_time
    IN  << Event(index, start_time, "action", "test.trace",
                 StrOr(before.callId, before.stepId), duration_ms, "") >>

\* mutant: an error record with no time of its own is put at the trace start
_parse_error_AtZero(entry, index) ==
    << Event(index, 0, "error", "test.trace", "", 0, "") >>

_parse_error(entry, index) ==
    << Event(index, Inf, "error", "test.trace", "", 0, "") >>

\* One iteration of the loop of TestTraceParser.parse().
TestStep(p, entry) ==
    CASE entry.type = "before" ->
           LET step_id == StrOr(entry.stepId, entry.callId)
           IN  IF step_id # ""
               THEN [p EXCEPT !.before_events = DictSet(p.before_events, step_id, entry)]
               ELSE p
      [] entry.type = "after" ->
           LET step_id == StrOr(entry.stepId, entry.callId)
           IN  IF step_id \in DOMAIN p.before_events
               THEN LET event == _parse_test_action(p.before_events[step_id], entry,
                                                    p.action_index)
                    IN  [p EXCEPT !.out = p.out \o event,
                                  !.action_index = p.action_index + Len(event),
                                  !.before_events = DictDel(p.before_events, step_id)]
               ELSE p
      [] entry.type = "error" ->
           LET event == _parse_error(entry, p.error_index)
           IN  [p EXCEPT !.out = p.out \o event,
                         !.error_index = p.error_index + Len(event)]
      [] OTHER -> p

\* ------------------------------------------------------------ TraceArchive
\* get_context_options(): the first context-options record of 0-trace.trace,
\* <<>> when there is none.
get_context_options(a) ==
    LET hits == SelectSeq(a.browser, LAMBDA e : e.type = "context-options")
    IN  IF hits = << >> THEN << >> ELSE << hits[1] >>

get_trace_start_time(a) ==
    LET ctx == get_context_options(a)
    IN  IF ctx = << >> THEN 0 ELSE Get(ctx[1].time, 0)

get_wall_time(a) ==
    LET ctx == get_context_options(a)
    IN  IF ctx = << >> THEN 0 ELSE Get(ctx[1].wall, 0)

\* ----------------------------------------------------------- NetworkParser
\* mutant: a parsable startedDateTime is preferred to _monotonicTime
_parse_timestamp_WallClockFirst(a, snapshot) ==
    IF snapshot.started # Absent /\ snapshot.started # BadDate
    THEN snapshot.started - get_wall_time(a)
    ELSE IF snapshot.mono # Absent THEN snapshot.mono ELSE 0

_parse_timestamp(a, snapshot) ==
    IF snapshot.mono # Absent THEN snapshot.mono
    ELSE IF snapshot.started # Absent /\ snapshot.started # BadDate
         THEN snapshot.started - get_wall_time(a)
         ELSE 0

_parse_entry(a, entry, index) ==
    IF entry.type # "resource-snapshot" THEN << >>
    ELSE << Event(index, _parse_timestamp(a, entry), "network", "0-trace.network",
                  "", 0, "") >>

\* ------------------------------------------------ parse() run to exhaustion
RECURSIVE BrowserRun(_, _)
BrowserRun(p, entries) ==
    IF entries = << >> THEN p
    ELSE BrowserRun(BrowserStep(p, Head(entries)), Tail(entries))

RECURSIVE TestRun(_, _)
TestRun(p, entries) ==
    IF entries = << >> THEN p
    ELSE TestRun(TestStep(p, Head(entries)), Tail(entries))

RECURSIVE NetworkRun(_, _, _)
NetworkRun(a, out, entries) ==
    IF entries = << >> THEN out
    ELSE NetworkRun(a, out \o _parse_entry(a, Head(entries), Len(out)), Tail(entries))

\* -------------------------------------------------------------- EventIndex
EventTypes == {"network", "console", "action", "error", "screenshot", "log", "input"}

\* Python's order on the type names (str.__lt__).
TypeRank(t) ==
    CASE t = "action" -> 0 [] t = "console" -> 1 [] t = "error" -> 2 [] t = "input" -> 3
      [] t = "log" -> 4 [] t = "network" -> 5 [] t = "screenshot" -> 6

\* Python's order on tuples of numbers: lexicographic, a proper prefix first
TupleLess(x, y) ==
    \/ \E k \in 1..Len(x) :
          /\ k <= Len(y)
          /\ x[k] < y[k]
          /\ \A m \in 1..(k - 1) : x[m] = y[m]
    \/ /\ Len(x) < Len(y)
       /\ \A m \in 1..Len(x) : x[m] = y[m]

\* mutant: ascending in the keys, elements of equal keys in reverse order
StableSort_ReversesTies(s, keys) ==
    LET n == Len(s)
        rank(i) == Cardinality({ j \in 1..n : \/ TupleLess(keys[j], keys[i])
                                              \/ ~TupleLess(keys[i], keys[j]) /\ j > i })
    IN  [k \in 1..n |-> s[CHOOSE i \in 1..n : rank(i) = k - 1]]

\* list.sort(key=...): ascending in the keys (keys[i] is the key of s[i]) and
\* stable
StableSort(s, keys) ==
    LET n == Len(s)
        rank(i) == Cardinality({ j \in 1..n : \/ TupleLess(keys[j], keys[i])
                                              \/ ~TupleLess(keys[i], keys[j]) /\ j < i })
    IN  [k \in 1..n |-> s[CHOOSE i \in 1..n : rank(i) = k - 1]]

\* mutant: the key's components swapped, (event_type, timestamp_ms)
SortKey_TypeFirst(e) == << TypeRank(e.event_type), e.timestamp_ms >>

\* key=lambda e: (e.timestamp_ms, e.event_type)
SortKey(e) == << e.timestamp_ms, TypeRank(e.event_type) >>

\* all_events.sort(key=lambda e: (e.timestamp_ms, e.event_type))
SortEvents(all_events) ==
    StableSort(all_events, [i \in 1..Len(all_events) |-> SortKey(all_events[i])])

\* mutant: the events keep the index their parser gave them
Reindex_Skipped(all_events) == all_events

\* for i, event in enumerate(all_events): event.index = i
Reindex(all_events) ==
    [i \in 1..Len(all_events) |-> [all_events[i] EXCEPT !.index = i - 1]]

\* the three parsers, in the order _ensure_parsed runs them
CollectEvents(a) ==
    NetworkRun(a, << >>, a.network)
    \o BrowserRun(ParserInit, a.browser).out
    \o TestRun(ParserInit, a.test).out

BuildEvents(a) == Reindex(SortEvents(CollectEvents(a)))

\* mutant: a type's list is replaced by the event instead of extended with it
RECURSIVE ByTypeLoop_Overwrites(_, _, _)
ByTypeLoop_Overwrites(bt, events, i) ==
    IF i > Len(events) THEN bt
    ELSE ByTypeLoop_Overwrites(DictSet(bt, events[i].event_type, << events[i] >>),
                               events, i + 1)

\* for event in self._events: a type met for the first time gets an empty
\* list, then the event is appended to its type's list
RECURSIVE ByTypeLoop(_, _, _)
ByTypeLoop(bt, events, i) ==
    IF i > Len(events) THEN bt
    ELSE LET t == events[i].event_type
             list == IF t \in DOMAIN bt THEN bt[t] ELSE << >>
         IN  ByTypeLoop(DictSet(bt, t, Append(list, events[i])), events, i + 1)

\* the type index
BuildByType(events) == ByTypeLoop(<< >>, events, 1)


\* ------------------------------------------------------ EventIndex queries
\* float subtraction, with inf - x = inf for a finite x
FloatSub(x, y) == IF x = Inf THEN Inf ELSE x - y

Abs(x) == IF x < 0 THEN 0 - x ELSE x

\* Event.to_dict(): index, timestamp and type, then the type's payload
\* (source_file and raw are left out).
to_dict(e) ==
    [index |-> e.index, timestamp_ms |-> e.timestamp_ms, event_type |-> e.event_type,
     call_id |-> e.call_id, duration_ms |-> e.duration_ms, sha1 |-> e.sha1]

\* self._by_type.get(event_type, [])
by_type(bt, event_type) == IF event_type \in DOMAIN bt THEN bt[event_type] ELSE << >>

\* mutant: the scan ends at the first event outside the range, on either side
RECURSIVE InRangeScan_BreakOnMiss(_, _, _, _)
InRangeScan_BreakOnMiss(events, i, start_ms, end_ms) ==
    IF i > Len(events) THEN << >>
    ELSE IF start_ms <= events[i].timestamp_ms /\ events[i].timestamp_ms <= end_ms
         THEN << events[i] >> \o InRangeScan_BreakOnMiss(events, i + 1, start_ms, end_ms)
         ELSE << >>

\* in_range: the scan from the beginning, ended by the first event past end_ms
RECURSIVE InRangeScan(_, _, _, _)
InRangeScan(events, i, start_ms, end_ms) ==
    IF i > Len(events) THEN << >>
    ELSE IF start_ms <= events[i].timestamp_ms /\ events[i].timestamp_ms <= end_ms
         THEN << events[i] >> \o InRangeScan(events, i + 1, start_ms, end_ms)
         ELSE IF events[i].timestamp_ms > end_ms
              THEN << >>
              ELSE InRangeScan(events, i + 1, start_ms, end_ms)

in_range(events, start_ms, end_ms) == InRangeScan(events, 1, start_ms, end_ms)

after(events, timestamp_ms) ==
    SelectSeq(events, LAMBDA e : e.timestamp_ms >= timestamp_ms)

\* mutant: the scan keeps the events strictly before the timestamp
RECURSIVE BeforeScan_Strict(_, _, _)
BeforeScan_Strict(events, i, timestamp_ms) ==
    IF i > Len(events) THEN << >>
    ELSE IF events[i].timestamp_ms < timestamp_ms
         THEN << events[i] >> \o BeforeScan_Strict(events, i + 1, timestamp_ms)
         ELSE << >>

\* before: the scan from the beginning, ended by the first event past the
\* timestamp
RECURSIVE BeforeScan(_, _, _)
BeforeScan(events, i, timestamp_ms) ==
    IF i > Len(events) THEN << >>
    ELSE IF events[i].timestamp_ms <= timestamp_ms
         THEN << events[i] >> \o BeforeScan(events, i + 1, timestamp_ms)
         ELSE << >>

before(events, timestamp_ms) == BeforeScan(events, 1, timestamp_ms)

\* <<>> stands for None
get_by_index(events, index) ==
    IF 0 <= index /\ index < Len(events) THEN << events[index + 1] >> ELSE << >>

\* the keys of the result dictionary of correlate()
CorrelateTypes == {"network", "console", "action", "error", "screenshot", "log"}

\* key=lambda e: e["distance_ms"]
DistanceKey(d) == << d.distance_ms >>

\* mutant: the groups are left in scan order
SortGroup_Unsorted(group) == group

\* events.sort(key=lambda e: e["distance_ms"]) of one group
SortGroup(group) ==
    StableSort(group, [i \in 1..Len(group) |-> DistanceKey(group[i])])

correlate(events, timestamp_ms, window_ms) ==
    LET start == timestamp_ms - window_ms
        end == timestamp_ms + window_ms
        hits == in_range(events, start, end)
        dicts == [i \in 1..Len(hits) |->
                    [event |-> to_dict(hits[i]),
                     distance_ms |-> Abs(FloatSub(hits[i].timestamp_ms, timestamp_ms))]]
    IN  [t \in CorrelateTypes |->
            SortGroup(SelectSeq(dicts, LAMBDA d : d.event.event_type = t))]

\* mutant: the earliest screenshot is returned
closest_screenshot_First(bt, timestamp_ms) ==
    LET screenshots == by_type(bt, "screenshot")
    IN  IF screenshots = << >> THEN << >> ELSE << screenshots[1] >>

\* min(screenshots, key=...): the first screenshot at the least distance
closest_screenshot(bt, timestamp_ms) ==
    LET screenshots == by_type(bt, "screenshot")
        dist(i) == Abs(FloatSub(screenshots[i].timestamp_ms, timestamp_ms))
    IN  IF screenshots = << >> THEN << >>
        ELSE << screenshots[CHOOSE i \in 1..Len(screenshots) :
                    \A j \in 1..Len(screenshots) :
                        dist(i) < dist(j) \/ (dist(i) = dist(j) /\ i <= j)] >>

\* mutant: the duration is taken between the last and the first event
get_summary_NoInfFilter(events, bt) ==
    [total_events |-> Len(events),
     duration_ms |-> IF events # << >>
                     THEN FloatSub(events[Len(events)].timestamp_ms,
                                   events[1].timestamp_ms)
                     ELSE 0,
     event_counts |-> [t \in DOMAIN bt |-> Len(bt[t])],
     has_errors |-> Len(by_type(bt, "error")) > 0]

get_summary(events, bt) ==
    LET finite_events == SelectSeq(events, LAMBDA e : e.timestamp_ms # Inf)
        duration_ms ==
            IF events # << >> /\ finite_events # << >>
            THEN finite_events[Len(finite_events)].timestamp_ms
                 - finite_events[1].timestamp_ms
            ELSE 0
    IN  [total_events |-> Len(events),
         duration_ms |-> duration_ms,
         event_counts |-> [t \in DOMAIN bt |-> Len(bt[t])],
         has_errors |-> Len(by_type(bt, "error")) > 0]

\* ------------------------------------------------- TraceArchive resources
Hashes == {"h1", "h2", "h3"}

\* the zip entry resources/<hash>
ResourcePath(h) ==
    CASE h = "h1" -> "resources/h1" [] h = "h2" -> "resources/h2"
      [] h = "h3" -> "resources/h3"

ResourcePaths == { ResourcePath(h) : h \in Hashes }

\* sha1_or_path.startswith("resources/")
StartsWithResources(sha1_or_path) == sha1_or_path \in ResourcePaths

\* ZipFile.read(name): the entry's bytes, KeyError when the zip has no such entry
ZipRead(z, name) ==
    IF name \in DOMAIN z
    THEN [kind |-> "return", value |-> z[name]]
    ELSE [kind |-> "raise", value |-> "KeyError"]

get_resource(z, sha1_or_path) ==
    IF StartsWithResources(sha1_or_path)
    THEN ZipRead(z, sha1_or_path)
    ELSE ZipRead(z, ResourcePath(sha1_or_path))

\* bytes.decode("utf-8")
Decode(bytes) ==
    IF bytes = "utf8-bytes"
    THEN [kind |-> "return", value |-> "text"]
    ELSE [kind |-> "raise", value |-> "UnicodeDecodeError"]

\* mutant: only the missing entry is caught, a failed decode escapes
get_resource_text_KeyErrorOnly(z, sha1_or_path) ==
    LET data == get_resource(z, sha1_or_path)
        text == IF data.kind = "return" THEN Decode(data.value) ELSE data
    IN  IF text.kind = "raise" /\ text.value = "KeyError"
        THEN [kind |-> "return", value |-> "None"]
        ELSE text

get_resource_text(z, sha1_or_path) ==
    LET data == get_resource(z, sha1_or_path)
        text == IF data.kind = "return" THEN Decode(data.value) ELSE data
    IN  IF text.kind = "raise" /\ text.value \in {"KeyError", "UnicodeDecodeError"}
        THEN [kind |-> "return", value |-> "None"]
        ELSE text

\* exit codes of the command line
EXIT_SUCCESS == 0
EXIT_FILE_NOT_FOUND == 3
EXIT_PARSE_ERROR == 4

\* _output_screenshot(index, event, args) of an event that has a screenshot
_output_screenshot(z, sha1) ==
    LET data == get_resource(z, sha1)
    IN  IF data.kind = "raise" THEN data
        ELSE [kind |-> "return", value |-> EXIT_SUCCESS]

\* what the path given to the constructor names: no file, a zero-byte file,
\* a file of bytes that are no zip, or a zip
FileKinds == {"missing", "empty", "garbage", "zip"}

\* TraceArchive.__init__(path), z the entries of the file when it is a zip:
\* path.exists() is tested first, then zipfile.ZipFile(path, "r") opens it
TraceArchive(file, z) ==
    IF file = "missing"
    THEN [kind |-> "raise", value |-> "FileNotFoundError"]
    ELSE IF file # "zip"
         THEN [kind |-> "raise", value |-> "BadZipFile"]
         ELSE [kind |-> "return", value |-> z]

\* mutant: only FileNotFoundError is caught around the constructor
main_NoGenericExcept(file, z, sha1) ==
    LET opened == TraceArchive(file, z)
    IN  IF opened.kind = "raise" /\ opened.value = "FileNotFoundError"
        THEN [kind |-> "return", value |-> EXIT_FILE_NOT_FOUND]
        ELSE IF opened.kind = "raise"
             THEN opened
             ELSE LET done == _output_screenshot(opened.value, sha1)
                  IN  IF done.kind = "raise"
                      THEN [kind |-> "return", value |-> EXIT_PARSE_ERROR]
                      ELSE done

\* main(argv) with a trace file and a command, the command being the output
\* of the screenshot sha1
main(file, z, sha1) ==
    LET opened == TraceArchive(file, z)
    IN  IF opened.kind = "raise" /\ opened.value = "FileNotFoundError"
        THEN [kind |-> "return", value |-> EXIT_FILE_NOT_FOUND]
        ELSE IF opened.kind = "raise"
             THEN [kind |-> "return", value |-> EXIT_PARSE_ERROR]
             ELSE LET done == _output_screenshot(opened.value, sha1)
                  IN  IF done.kind = "raise"
                      THEN [kind |-> "return", value |-> EXIT_PARSE_ERROR]
                      ELSE done

\* ------------------------------------------------------------------- state
VARIABLES
    stream,     \* records of 0-trace.trace the running parse() has consumed (of
                \* test.trace in SpecTwin, 0-trace.trace holding their twins)
    parser,     \* state of the running BrowserTraceParser.parse()
    test_parser,    \* state of a TestTraceParser.parse() run beside it
    pc,         \* "running" while the generator is live, "done" when exhausted
    archive,    \* the open archive: its network, browser and test streams
    _events,    \* EventIndex._events
    _by_type,   \* EventIndex._by_type
    _parsed,    \* EventIndex._parsed
    _trace_start_ms,    \* EventIndex._trace_start_ms
    _context_options,   \* TraceArchive._context_options: <<>> for None, else
                        \* << what get_context_options() found >>
    _trace_start_time,  \* TraceArchive._trace_start_time: <<>> for None, else
                        \* << what get_trace_start_time() computed >>
    reads,      \* how many times each stream of the archive has been read
    query,      \* the query being answered, with its arguments (NoQuery when idle)
    result,     \* what that query returns
    calls,      \* how many queries the handle has been asked: 0, 1, 2 for two or more
    zf,         \* TraceArchive._zf: the entries of the zip, name -> bytes
    acall,      \* the last call made on the archive
    outcome     \* how that call ended: a returned value or a raised exception

parserVars == << stream, parser, test_parser, pc >>
indexVars == << archive, _events, _by_type, _parsed, _trace_start_ms, _context_options,
               _trace_start_time, reads, query, result, calls >>
archiveVars == << zf, acall, outcome >>
vars == << stream, parser, test_parser, pc, archive, _events, _by_type, _parsed, _trace_start_ms,
           _context_options, _trace_start_time, reads, query, result, calls, zf, acall,
           outcome >>

EmptyArchive == [network |-> << >>, browser |-> << >>, test |-> << >>]
NoQuery == [op |-> "none", type |-> "", a |-> 0, b |-> 0]
NoReads == [network |-> 0, browser |-> 0, test |-> 0]

\* EventIndex.__init__ over a newly opened archive
IndexNew(a) ==
    /\ archive = a
    /\ _context_options = << >>
    /\ _trace_start_time = << >>
    /\ reads = NoReads
    /\ _events = << >>
    /\ _by_type = << >>
    /\ _parsed = FALSE
    /\ _trace_start_ms = 0
    /\ query = NoQuery
    /\ result = << >>
    /\ calls = 0

ParserIdle ==
    /\ stream = << >>
    /\ parser = ParserInit
    /\ test_parser = ParserInit
    /\ pc = "idle"

NoCall == [op |-> "none", arg |-> ""]

ArchiveIdle ==
    /\ zf = << >>
    /\ acall = NoCall
    /\ outcome = [kind |-> "none", value |-> ""]

\* ------------------------------------------------- SpecParser: the records
ParserEntries ==
    { Entry("before", c, "", t, "") : c \in CallIds, t \in Times }
    \cup { Entry("after", c, "", t, "") : c \in CallIds, t \in Times \cup {Absent} }
    \cup { Entry("console", "", "", 0, ""),
           Entry("screencast-frame", "", "", 0, "h1"),
           Entry("screencast-frame", "", "", 0, ""),
           Entry("log", "", "", 0, ""),
           Entry("input", "", "", Absent, ""),
           Entry("frame-snapshot", "", "", Absent, "") }

ParserStart ==
    /\ stream = << >>
    /\ parser = ParserInit
    /\ test_parser = ParserInit
    /\ pc = "running"
    /\ IndexNew(EmptyArchive)
    /\ ArchiveIdle

\* for entry in self.archive.iter_browser_trace(): one record
ParseEntry ==
    /\ pc = "running"
    /\ Len(stream) < MaxStream
    /\ \E entry \in ParserEntries :
         /\ stream' = Append(stream, entry)
         /\ parser' = BrowserStep(parser, entry)
    /\ UNCHANGED << test_parser, pc, indexVars, archiveVars >>

\* mutant: at the end of the stream every pending before is emitted as an
\* action of duration 0
ParseEnd_FlushPending ==
    /\ pc = "running"
    /\ pc' = "done"
    /\ parser' = [parser EXCEPT !.out =
                     parser.out \o
                     (IF "c1" \in DOMAIN parser.before_events
                      THEN _parse_action(parser.before_events["c1"],
                                         parser.before_events["c1"], parser.action_index)
                      ELSE << >>)]
    /\ UNCHANGED << stream, test_parser, indexVars, archiveVars >>

\* the stream is exhausted: the generator returns
ParseEnd ==
    /\ pc = "running"
    /\ pc' = "done"
    /\ UNCHANGED << stream, parser, test_parser, indexVars, archiveVars >>

ParserNext == ParseEntry \/ ParseEnd

SpecParser == ParserStart /\ [][ParserNext]_vars

\* --------------------------------------- parse() called again on one parser
\* The entry of parse() on a parser that has run before: the per-type
\* counters are locals and start at 0, self._before_events is the instance's
\* map as the earlier run left it.
ParseCall(p) == [ParserInit EXCEPT !.before_events = p.before_events]

\* list(parser.parse()) a second time, on the same instance and the same
\* stream: parser.out is what this run yields
ParseAgain ==
    /\ pc = "done"
    /\ pc' = "again"
    /\ parser' = BrowserRun(ParseCall(parser), stream)
    /\ UNCHANGED << stream, test_parser, indexVars, archiveVars >>

ReparseNext == ParseEntry \/ ParseEnd \/ ParseAgain

SpecReparse == ParserStart /\ [][ReparseNext]_vars

\* ------------------------------------ SpecTwin: the two parsers side by side
\* step_id = entry.get("stepId") or entry.get("callId", ""): the identifier
\* the test-run parser keys a record by
StepIdOf(entry) == StrOr(entry.stepId, entry.callId)

\* the runtime record that is the twin of a test record: the same record with
\* the step identifier as its call id
RuntimeTwin(entry) == Entry(entry.type, StepIdOf(entry), "", entry.time, "")

\* how a test record carries its identifier: as stepId, as callId alone (the
\* after records of a test run), as stepId beside another callId, or not at all
TwinIds == { << "s1", "" >>, << "", "s1" >>, << "s1", "s2" >>, << "s2", "" >>, << "", "" >> }

TwinEntries ==
    { Entry("before", id[2], id[1], t, "") : id \in TwinIds, t \in {0, MaxTime} }
    \cup { Entry("after", id[2], id[1], t, "") : id \in TwinIds, t \in {Absent, MaxTime} }
    \cup { Entry("error", "", "", Absent, "") }

\* one record consumed by TestTraceParser.parse() and its twin by
\* BrowserTraceParser.parse()
TwinEntry ==
    /\ pc = "running"
    /\ Len(stream) < MaxStream
    /\ \E entry \in TwinEntries :
         /\ stream' = Append(stream, entry)
         /\ test_parser' = TestStep(test_parser, entry)
         /\ parser' = BrowserStep(parser, RuntimeTwin(entry))
    /\ UNCHANGED << pc, indexVars, archiveVars >>

\* both streams are exhausted
TwinEnd ==
    /\ pc = "running"
    /\ pc' = "done"
    /\ UNCHANGED << stream, parser, test_parser, indexVars, archiveVars >>

TwinNext == TwinEntry \/ TwinEnd

SpecTwin == ParserStart /\ [][TwinNext]_vars

\* ------------------------------------------------- SpecIndex: the archives
MaxBrowser == 2

RECURSIVE SeqsUpTo(_, _)
SeqsUpTo(S, n) ==
    IF n = 0 THEN { << >> }
    ELSE LET shorter == SeqsUpTo(S, n - 1)
         IN  shorter \cup { Append(s, x) : s \in shorter, x \in S }

IndexBrowserEntries ==
    { Entry("console", "", "", t, "") : t \in Times }
    \cup { Entry("screencast-frame", "", "", t, "h1") : t \in {0, MaxTime} }
    \cup { Entry("before", "c1", "", 0, ""),
           Entry("after", "c1", "", MaxTime, ""),
           Entry("log", "", "", MaxTime, ""),
           Entry("input", "", "", Absent, "") }

IndexNetworkStreams ==
    { << >>, << NetEntry("resource-snapshot", 1, Absent) >> }

IndexTestStreams ==
    { << >>, << Entry("error", "", "", Absent, "") >> }

Archives ==
    { [network |-> n, browser |-> b, test |-> t] :
        n \in IndexNetworkStreams, b \in SeqsUpTo(IndexBrowserEntries, MaxBrowser),
        t \in IndexTestStreams }

IndexInit ==
    /\ ParserIdle
    /\ ArchiveIdle
    /\ \E a \in Archives : IndexNew(a)

\* ------------------------------------------------------ EventIndex actions
\* _ensure_parsed(): the first query builds the index, later ones find it built
\* get_trace_start_time() reads the runtime stream for the context options
\* unless they are memoized; then each parser reads its stream once.
\* get_wall_time() in the network parser and the metadata of get_summary()
\* find the context options memoized by then.
ReadsOfBuild(memo, r) ==
    [network |-> r.network + 1,
     browser |-> r.browser + (IF memo = << >> THEN 2 ELSE 1),
     test |-> r.test + 1]

\* mutant: the _parsed flag is not consulted, every query builds
_ensure_parsed_NoFlag ==
    /\ _context_options' = IF _context_options = << >>
                           THEN << get_context_options(archive) >>
                           ELSE _context_options
    /\ _trace_start_time' = IF _trace_start_time = << >>
                            THEN << get_trace_start_time(archive) >>
                            ELSE _trace_start_time
    /\ reads' = ReadsOfBuild(_context_options, reads)
    /\ _trace_start_ms' = get_trace_start_time(archive)
    /\ _events' = BuildEvents(archive)
    /\ _by_type' = BuildByType(_events')
    /\ _parsed' = TRUE

_ensure_parsed ==
    IF _parsed
    THEN UNCHANGED << _events, _by_type, _parsed, _trace_start_ms, _context_options,
                      _trace_start_time, reads >>
    ELSE /\ _context_options' = IF _context_options = << >>
                                THEN << get_context_options(archive) >>
                                ELSE _context_options
         /\ _trace_start_time' = IF _trace_start_time = << >>
                                 THEN << get_trace_start_time(archive) >>
                                 ELSE _trace_start_time
         /\ reads' = ReadsOfBuild(_context_options, reads)
         /\ _trace_start_ms' = get_trace_start_time(archive)
         /\ _events' = BuildEvents(archive)
         /\ _by_type' = BuildByType(_events')
         /\ _parsed' = TRUE

\* A query is called on an idle handle; `query` holds the call until the
\* caller has taken its result.
Call(op, type, a, b) ==
    /\ query = NoQuery
    /\ query' = [op |-> op, type |-> type, a |-> a, b |-> b]
    /\ calls' = IF calls < 2 THEN calls + 1 ELSE calls

QueryTimes == Times \cup {Inf}

All ==
    /\ Call("all", "", 0, 0)
    /\ _ensure_parsed
    /\ result' = _events'
    /\ UNCHANGED << archive, parserVars, archiveVars >>

ByType ==
    \E t \in EventTypes :
        /\ Call("by_type", t, 0, 0)
        /\ _ensure_parsed
        /\ result' = by_type(_by_type', t)
        /\ UNCHANGED << archive, parserVars, archiveVars >>

InRange ==
    \E start_ms \in Times, end_ms \in QueryTimes :
        /\ Call("in_range", "", start_ms, end_ms)
        /\ _ensure_parsed
        /\ result' = in_range(_events', start_ms, end_ms)
        /\ UNCHANGED << archive, parserVars, archiveVars >>

After ==
    \E t \in Times :
        /\ Call("after", "", t, 0)
        /\ _ensure_parsed
        /\ result' = after(_events', t)
        /\ UNCHANGED << archive, parserVars, archiveVars >>

Before ==
    \E t \in Times :
        /\ Call("before", "", t, 0)
        /\ _ensure_parsed
        /\ result' = before(_events', t)
        /\ UNCHANGED << archive, parserVars, archiveVars >>

GetByIndex ==
    \E i \in -1..(MaxBrowser + 2) :
        /\ Call("get_by_index", "", i, 0)
        /\ _ensure_parsed
        /\ result' = get_by_index(_events', i)
        /\ UNCHANGED << archive, parserVars, archiveVars >>

Correlate ==
    \E t \in Times, w \in Times :
        /\ Call("correlate", "", t, w)
        /\ _ensure_parsed
        /\ result' = correlate(_events', t, w)
        /\ UNCHANGED << archive, parserVars, archiveVars >>

\* mutant: the screenshot list of the type index is sorted by distance in
\* place and its head returned
ClosestScreenshot_SortsInPlace ==
    \E t \in Times :
        /\ Call("closest_screenshot", "", t, 0)
        /\ _trace_start_ms' = IF _parsed THEN _trace_start_ms
                              ELSE get_trace_start_time(archive)
        /\ _events' = IF _parsed THEN _events ELSE BuildEvents(archive)
        /\ _context_options' = << get_context_options(archive) >>
        /\ _trace_start_time' = << get_trace_start_time(archive) >>
        /\ reads' = IF _parsed THEN reads ELSE ReadsOfBuild(_context_options, reads)
        /\ _parsed' = TRUE
        /\ LET bt == IF _parsed THEN _by_type ELSE BuildByType(_events')
           IN  /\ result' = closest_screenshot(bt, t)
               /\ _by_type' =
                    [ty \in DOMAIN bt |->
                       IF ty = "screenshot"
                       THEN StableSort(bt[ty],
                                       [i \in 1..Len(bt[ty]) |->
                                          << Abs(FloatSub(bt[ty][i].timestamp_ms, t)) >>])
                       ELSE bt[ty]]
        /\ UNCHANGED << archive, parserVars, archiveVars >>

ClosestScreenshot ==
    \E t \in Times :
        /\ Call("closest_screenshot", "", t, 0)
        /\ _ensure_parsed
        /\ result' = closest_screenshot(_by_type', t)
        /\ UNCHANGED << archive, parserVars, archiveVars >>

GetSummary ==
    /\ Call("get_summary", "", 0, 0)
    /\ _ensure_parsed
    /\ result' = get_summary(_events', _by_type')
    /\ UNCHANGED << archive, parserVars, archiveVars >>

\* the caller takes the result; the handle is idle again
Return ==
    /\ query # NoQuery
    /\ query' = NoQuery
    /\ result' = << >>
    /\ UNCHANGED << archive, _events, _by_type, _parsed, _trace_start_ms,
                    _context_options, _trace_start_time, reads, calls, parserVars,
                    archiveVars >>

IndexNext ==
    \/ All \/ ByType \/ InRange \/ After \/ Before \/ GetByIndex
    \/ Correlate \/ ClosestScreenshot \/ GetSummary \/ Return

SpecIndex == IndexInit /\ [][IndexNext]_vars

\* ---------------------------------------- SpecOrder: events that tie
\* archives whose events share timestamps and types and differ in payload
MaxOrder == 3

OrderEntries ==
    { Entry("screencast-frame", "", "", 0, h) : h \in {"h1", "h2"} }
    \cup { Entry("console", "", "", t, "") : t \in {0, MaxTime} }

OrderArchives ==
    { [network |-> n, browser |-> b, test |-> << >>] :
        n \in IndexNetworkStreams, b \in SeqsUpTo(OrderEntries, MaxOrder) }

OrderInit ==
    /\ ParserIdle
    /\ ArchiveIdle
    /\ \E a \in OrderArchives : IndexNew(a)

SpecOrder == OrderInit /\ [][IndexNext]_vars

\* ------------------------------------- SpecAlias: callers holding results
\* The queries that hand out Event objects: yield from self._events, yield
\* from self._by_type[...], return self._events[index], min(screenshots).
\* The objects are the ones the index holds, in _events and in the list of
\* their type; index is the event's position, so it names the object.
EventQueries ==
    {"all", "by_type", "in_range", "after", "before", "get_by_index", "closest_screenshot"}

\* event.timestamp_ms = v on the object at position `index`, seen through
\* every list that holds the object
WriteThrough(events, index, v) ==
    [i \in 1..Len(events) |->
        IF events[i].index = index THEN [events[i] EXCEPT !.timestamp_ms = v]
        ELSE events[i]]

\* the caller of an outstanding query assigns the timestamp of an event it
\* was given
CallerWrites ==
    /\ query.op \in EventQueries
    /\ \E k \in 1..Len(result), v \in Times :
          /\ v # result[k].timestamp_ms
          /\ _events' = WriteThrough(_events, result[k].index, v)
          /\ _by_type' = [t \in DOMAIN _by_type |->
                            WriteThrough(_by_type[t], result[k].index, v)]
          /\ result' = WriteThrough(result, result[k].index, v)
    /\ UNCHANGED << archive, _parsed, _trace_start_ms, _context_options,
                    _trace_start_time, reads, query, calls, parserVars, archiveVars >>

AliasArchives ==
    { [network |-> << >>, browser |-> b, test |-> << >>] :
        b \in SeqsUpTo({ Entry("console", "", "", t, "") : t \in Times }, MaxBrowser) }

AliasInit ==
    /\ ParserIdle
    /\ ArchiveIdle
    /\ \E a \in AliasArchives : IndexNew(a)

AliasNext == IndexNext \/ CallerWrites

SpecAlias == AliasInit /\ [][AliasNext]_vars

\* ------------------------------------------------ the streams as raw lines
\* A line of a stream file is, by what becomes of it: "json", the text of a
\* JSON object (rec holds the record); "malformed", text json.loads rejects;
\* "blank"; "scalar", the text of a JSON value that is no object (null, 42);
\* "not-utf8", bytes that are not UTF-8.
Line(kind, rec) == [kind |-> kind, rec |-> rec]

MaxLines == 2
MaxReads == 2
StreamNames == {"0-trace.network", "0-trace.trace", "test.trace"}

\* read_text(name): the whole file is decoded at once
read_text(z, name) ==
    IF \E i \in 1..Len(z[name]) : z[name][i].kind = "not-utf8"
    THEN [kind |-> "raise", value |-> "UnicodeDecodeError"]
    ELSE [kind |-> "return", value |-> z[name]]

\* iter_test_trace / iter_browser_trace / iter_network run to exhaustion:
\* nothing when the archive has no such file; else json.loads of every
\* non-empty line, a JSONDecodeError skipping the line
iter_stream(z, name) ==
    IF name \notin DOMAIN z THEN [kind |-> "return", value |-> << >>]
    ELSE LET content == read_text(z, name)
         IN  IF content.kind = "raise" THEN content
             ELSE [kind |-> "return",
                   value |-> SelectSeq(content.value,
                                       LAMBDA l : l.kind \in {"json", "scalar"})]

\* the first item a loop of entry.get(...) fails on: 0 when there is none
FirstScalar(items) ==
    IF \E i \in 1..Len(items) : items[i].kind = "scalar"
    THEN CHOOSE i \in 1..Len(items) :
            /\ items[i].kind = "scalar"
            /\ \A j \in 1..(i - 1) : items[j].kind # "scalar"
    ELSE 0

\* the position at which get_context_options() returns: 0 when no item is a
\* context-options record
FirstCtx(items) ==
    LET isCtx(i) == items[i].kind = "json" /\ items[i].rec[1].type = "context-options"
    IN  IF \E i \in 1..Len(items) : isCtx(i)
        THEN CHOOSE i \in 1..Len(items) : isCtx(i) /\ \A j \in 1..(i - 1) : ~isCtx(j)
        ELSE 0

\* a loop over a stream calling entry.get(...) on every item, up to the
\* position `upto` when that is not 0: "" when it completes, else the
\* exception that ends it
LoopFailure(z, name, upto) ==
    LET items == iter_stream(z, name)
    IN  IF items.kind = "raise" THEN items.value
        ELSE LET bad == FirstScalar(items.value)
             IN  IF bad # 0 /\ (upto = 0 \/ bad < upto) THEN "AttributeError" ELSE ""

\* the records among the items a stream yields
RecordsOf(items) ==
    LET dicts == SelectSeq(items, LAMBDA l : l.kind = "json")
    IN  [i \in 1..Len(dicts) |-> dicts[i].rec[1]]

\* the records a stream yields, none when its read fails
Yielded(z, name) ==
    LET items == iter_stream(z, name)
    IN  IF items.kind = "return" THEN RecordsOf(items.value) ELSE << >>

\* the archive the parsers see when every loop completes
Decoded(z) ==
    [network |-> Yielded(z, "0-trace.network"),
     browser |-> Yielded(z, "0-trace.trace"),
     test |-> Yielded(z, "test.trace")]

\* The build of _ensure_parsed() over the raw archive: get_trace_start_time()
\* scans the runtime stream up to the context options unless they are
\* memoized, then the network, runtime and test parsers loop over their
\* streams. `failed` is the exception that ended it ("" for none), `memo`
\* whether the context options are memoized by then and `reads` the streams
\* read until then.
BuildOverLines(z, memoized) ==
    LET ctxStop == IF iter_stream(z, "0-trace.trace").kind = "return"
                   THEN FirstCtx(iter_stream(z, "0-trace.trace").value) ELSE 0
        f1 == IF memoized THEN "" ELSE LoopFailure(z, "0-trace.trace", ctxStop)
        c == IF memoized THEN 0 ELSE 1
        f2 == LoopFailure(z, "0-trace.network", 0)
        f3 == LoopFailure(z, "0-trace.trace", 0)
        f4 == LoopFailure(z, "test.trace", 0)
    IN  IF f1 # "" THEN [failed |-> f1, memo |-> FALSE,
                         reads |-> [network |-> 0, browser |-> c, test |-> 0]]
        ELSE IF f2 # "" THEN [failed |-> f2, memo |-> TRUE,
                              reads |-> [network |-> 1, browser |-> c, test |-> 0]]
        ELSE IF f3 # "" THEN [failed |-> f3, memo |-> TRUE,
                              reads |-> [network |-> 1, browser |-> c + 1, test |-> 0]]
        ELSE [failed |-> f4, memo |-> TRUE,
              reads |-> [network |-> 1, browser |-> c + 1, test |-> 1]]

\* ------------------------------------------- SpecClock: one instant, three
\* streams. The trace starts at monotonic time m and wall-clock time w; d
\* milliseconds later the page logs to the console, a request starts and a
\* test step begins and ends. The runtime and test records carry the
\* monotonic time of that instant; the network record carries it as
\* _monotonicTime or, without one, as the wall-clock startedDateTime.
ClockArchive(m, w, d, stamped) ==
    [network |-> << NetEntry("resource-snapshot",
                             IF stamped THEN m + d ELSE Absent, w + d) >>,
     browser |-> << CtxEntry(m, w), Entry("console", "", "", m + d, "") >>,
     test |-> << Entry("before", "", "s1", m + d, ""),
                 Entry("after", "", "s1", m + d, "") >>]

ClockArchives ==
    { ClockArchive(m, w, d, stamped) :
        m \in Times, w \in Times, d \in Times, stamped \in BOOLEAN }

ClockInit ==
    /\ ParserIdle
    /\ ArchiveIdle
    /\ \E a \in ClockArchives : IndexNew(a)

SpecClock == ClockInit /\ [][IndexNext]_vars

\* ------------------------------------------- SpecLines: the raw archives
BrowserLines ==
    { Line("json", << CtxEntry(0, 0) >>),
      Line("json", << Entry("console", "", "", 0, "") >>),
      Line("json", << Entry("console", "", "", MaxTime, "") >>),
      Line("malformed", << >>), Line("blank", << >>),
      Line("scalar", << >>), Line("not-utf8", << >>) }

NetworkLines ==
    { Line("json", << NetEntry("resource-snapshot", 1, Absent) >>),
      Line("malformed", << >>), Line("scalar", << >>) }

TestLines ==
    { Line("json", << Entry("error", "", "", Absent, "") >>),
      Line("malformed", << >>), Line("not-utf8", << >>) }

\* the archives: all three stream files, or no test.trace
RawArchives ==
    { [name \in StreamNames |->
         IF name = "0-trace.network" THEN n
         ELSE IF name = "0-trace.trace" THEN b ELSE t] :
        n \in SeqsUpTo(NetworkLines, 1), b \in SeqsUpTo(BrowserLines, MaxLines),
        t \in SeqsUpTo(TestLines, 1) }
    \cup
    { [name \in StreamNames \ {"test.trace"} |->
         IF name = "0-trace.network" THEN n ELSE b] :
        n \in SeqsUpTo(NetworkLines, 1), b \in SeqsUpTo(BrowserLines, MaxLines) }

LinesInit ==
    /\ ParserIdle
    /\ IndexNew(EmptyArchive)
    /\ zf \in RawArchives
    /\ acall = NoCall
    /\ outcome = [kind |-> "none", value |-> ""]

\* a stream iterated to exhaustion
IterStream ==
    \E name \in StreamNames :
        /\ acall' = [op |-> "iter", arg |-> name]
        /\ outcome' = iter_stream(zf, name)
        /\ UNCHANGED << zf, parserVars, indexVars >>

\* mutant: the parsers' events are appended to self._events as they come, so
\* a failing build leaves behind what the network parser emitted
EnsureParsedLines_AppendsInPlace ==
    /\ \A x \in DOMAIN reads : reads[x] < MaxReads
    /\ acall' = [op |-> "_ensure_parsed", arg |-> ""]
    /\ IF _parsed
       THEN /\ outcome' = [kind |-> "return", value |-> ""]
            /\ UNCHANGED << _events, _by_type, _parsed, _trace_start_ms,
                            _context_options, _trace_start_time, reads >>
       ELSE LET b == BuildOverLines(zf, _context_options # << >>)
                a == Decoded(zf)
            IN  /\ reads' = [x \in DOMAIN reads |-> reads[x] + b.reads[x]]
                /\ _context_options' =
                      IF b.memo /\ _context_options = << >>
                      THEN << get_context_options(a) >> ELSE _context_options
                /\ _trace_start_time' =
                      IF b.memo /\ _trace_start_time = << >>
                      THEN << get_trace_start_time(a) >> ELSE _trace_start_time
                /\ _trace_start_ms' =
                      IF b.memo THEN get_trace_start_time(a) ELSE _trace_start_ms
                /\ IF b.failed # ""
                   THEN /\ outcome' = [kind |-> "raise", value |-> b.failed]
                        /\ _events' = IF b.reads.test = 1 \/ b.reads.browser > b.reads.network
                                      THEN NetworkRun(a, << >>, a.network)
                                      ELSE _events
                        /\ UNCHANGED << _by_type, _parsed >>
                   ELSE /\ outcome' = [kind |-> "return", value |-> ""]
                        /\ _events' = BuildEvents(a)
                        /\ _by_type' = BuildByType(_events')
                        /\ _parsed' = TRUE
    /\ UNCHANGED << archive, query, result, calls, zf, parserVars >>

\* _ensure_parsed() of the index over the raw archive; a caller gives up on
\* an archive whose build keeps failing
EnsureParsedLines ==
    /\ \A x \in DOMAIN reads : reads[x] < MaxReads
    /\ acall' = [op |-> "_ensure_parsed", arg |-> ""]
    /\ IF _parsed
       THEN /\ outcome' = [kind |-> "return", value |-> ""]
            /\ UNCHANGED << _events, _by_type, _parsed, _trace_start_ms,
                            _context_options, _trace_start_time, reads >>
       ELSE LET b == BuildOverLines(zf, _context_options # << >>)
                a == Decoded(zf)
            IN  /\ reads' = [x \in DOMAIN reads |-> reads[x] + b.reads[x]]
                /\ _context_options' =
                      IF b.memo /\ _context_options = << >>
                      THEN << get_context_options(a) >> ELSE _context_options
                /\ _trace_start_time' =
                      IF b.memo /\ _trace_start_time = << >>
                      THEN << get_trace_start_time(a) >> ELSE _trace_start_time
                /\ _trace_start_ms' =
                      IF b.memo THEN get_trace_start_time(a) ELSE _trace_start_ms
                /\ IF b.failed # ""
                   THEN /\ outcome' = [kind |-> "raise", value |-> b.failed]
                        /\ UNCHANGED << _events, _by_type, _parsed >>
                   ELSE /\ outcome' = [kind |-> "return", value |-> ""]
                        /\ _events' = BuildEvents(a)
                        /\ _by_type' = BuildByType(_events')
                        /\ _parsed' = TRUE
    /\ UNCHANGED << archive, query, result, calls, zf, parserVars >>

LinesNext == IterStream \/ EnsureParsedLines

SpecLines == LinesInit /\ [][LinesNext]_vars

\* --------------------------------- SpecContext: the context-options getters
\* A context-options record with the keys the getters read: title and
\* browserName are "" and viewport << >> when the record has no such key.
CtxRecord(monotonicTime, wallTime, title, browserName, viewport) ==
    [type |-> "context-options", callId |-> "", stepId |-> "", time |-> monotonicTime,
     sha1 |-> "", wall |-> wallTime, title |-> title, browserName |-> browserName,
     viewport |-> viewport]

\* get_context_options() on an archive whose memo is `memo`: what the call
\* returns or raises, the memo after it and whether it scanned the runtime
\* stream. The scan stops at the first context-options record; without one
\* it runs to the end and {} (here << >>) is memoized.
ContextOptionsCall(z, memo) ==
    IF memo # << >>
    THEN [kind |-> "return", value |-> memo[1], memo |-> memo, scans |-> 0]
    ELSE LET items == iter_stream(z, "0-trace.trace")
             stop == IF items.kind = "return" THEN FirstCtx(items.value) ELSE 0
             failed == LoopFailure(z, "0-trace.trace", stop)
         IN  IF failed # ""
             THEN [kind |-> "raise", value |-> failed, memo |-> memo, scans |-> 1]
             ELSE [kind |-> "return", value |-> get_context_options(Decoded(z)),
                   memo |-> << get_context_options(Decoded(z)) >>, scans |-> 1]

\* ctx.get(key, default) of the getters, ctx being << >> for {}
CtxGet(ctx, key) ==
    CASE key = "monotonicTime" -> IF ctx = << >> THEN 0 ELSE Get(ctx[1].time, 0)
      [] key = "wallTime" -> IF ctx = << >> THEN 0 ELSE Get(ctx[1].wall, 0)
      [] key = "title" -> IF ctx = << >> THEN "" ELSE ctx[1].title
      [] key = "browserName" -> IF ctx = << >> THEN "" ELSE ctx[1].browserName
      [] key = "viewport" ->
           IF ctx = << >> \/ ctx[1].viewport = << >>
           THEN [width |-> 0, height |-> 0] ELSE ctx[1].viewport[1]

ContextLines ==
    { Line("json", << CtxRecord(1, 2, "t1", "chromium",
                                << [width |-> 1, height |-> 2] >>) >>),
      Line("json", << CtxRecord(Absent, Absent, "", "", << >>) >>),
      Line("json", << Entry("console", "", "", 0, "") >>),
      Line("malformed", << >>), Line("scalar", << >>), Line("not-utf8", << >>) }

\* the archives: with a runtime stream, or without the file
ContextArchives ==
    { [name \in {"0-trace.trace"} |-> b] : b \in SeqsUpTo(ContextLines, MaxLines) }
    \cup { << >> }

ContextInit ==
    /\ ParserIdle
    /\ IndexNew(EmptyArchive)
    /\ zf \in ContextArchives
    /\ acall = NoCall
    /\ outcome = [kind |-> "none", value |-> ""]

\* a getter that goes through get_context_options(): op is its name, key the
\* key it reads from the record ("" for the record itself)
ThroughContextOptions(op, key) ==
    LET r == ContextOptionsCall(zf, _context_options)
    IN  /\ reads.browser < MaxReads
        /\ acall' = [op |-> op, arg |-> ""]
        /\ outcome' = [kind |-> r.kind,
                       value |-> IF r.kind = "raise" \/ key = "" THEN r.value
                                 ELSE CtxGet(r.value, key)]
        /\ _context_options' = r.memo
        /\ reads' = [reads EXCEPT !.browser = @ + r.scans]
        /\ UNCHANGED << archive, _events, _by_type, _parsed, _trace_start_ms, query,
                        result, calls, zf, parserVars >>

GetContextOptions ==
    /\ ThroughContextOptions("get_context_options", "")
    /\ UNCHANGED _trace_start_time

\* get_trace_start_time() has a memo of its own
GetTraceStartTime ==
    IF _trace_start_time # << >>
    THEN /\ reads.browser < MaxReads
         /\ acall' = [op |-> "get_trace_start_time", arg |-> ""]
         /\ outcome' = [kind |-> "return", value |-> _trace_start_time[1]]
         /\ UNCHANGED << indexVars, zf, parserVars >>
    ELSE /\ ThroughContextOptions("get_trace_start_time", "monotonicTime")
         /\ _trace_start_time' = IF outcome'.kind = "return"
                                 THEN << outcome'.value >> ELSE _trace_start_time

GetWallTime ==
    /\ ThroughContextOptions("get_wall_time", "wallTime")
    /\ UNCHANGED _trace_start_time

GetTestName ==
    /\ ThroughContextOptions("get_test_name", "title")
    /\ UNCHANGED _trace_start_time

GetBrowserName ==
    /\ ThroughContextOptions("get_browser_name", "browserName")
    /\ UNCHANGED _trace_start_time

GetViewport ==
    /\ ThroughContextOptions("get_viewport", "viewport")
    /\ UNCHANGED _trace_start_time

ContextNext ==
    \/ GetContextOptions \/ GetTraceStartTime \/ GetWallTime
    \/ GetTestName \/ GetBrowserName \/ GetViewport

SpecContext == ContextInit /\ [][ContextNext]_vars

\* ------------------------------------- SpecNetwork: the network parser alone
\* snapshots with and without _monotonicTime, with a startedDateTime that
\* parses, one that does not, and none; a record that is no snapshot
NetworkEntries ==
    { NetEntry("resource-snapshot", mono, started) :
        mono \in {Absent, 0, MaxTime}, started \in {Absent, BadDate, 1, MaxTime + 1} }
    \cup { NetEntry("resource", Absent, 1) }

\* the runtime stream: no context options, context options without wallTime
\* and with it
NetworkArchives ==
    { [network |-> n, browser |-> b, test |-> << >>] :
        n \in SeqsUpTo(NetworkEntries, MaxLines),
        b \in { << >>, << CtxEntry(0, Absent) >>,
                << Entry("console", "", "", 0, ""), CtxEntry(Absent, 1) >> } }

NetworkInit ==
    /\ ParserIdle
    /\ ArchiveIdle
    /\ \E a \in NetworkArchives : IndexNew(a)

\* the snapshots for which _parse_timestamp() asks for the trace start epoch
AsksWallTime(entries) ==
    \E i \in 1..Len(entries) :
        /\ entries[i].type = "resource-snapshot"
        /\ entries[i].mono = Absent
        /\ entries[i].started \notin {Absent, BadDate}

\* list(NetworkParser(archive).parse()): the first snapshot that falls back
\* to startedDateTime has the parser ask the archive for its wall time, which
\* scans the runtime stream unless the context options are memoized
NetworkParse ==
    /\ reads.network < MaxReads
    /\ acall' = [op |-> "NetworkParser.parse", arg |-> ""]
    /\ outcome' = [kind |-> "return",
                   value |-> NetworkRun(archive, << >>, archive.network)]
    /\ LET scans == AsksWallTime(archive.network) /\ _context_options = << >>
       IN  /\ _context_options' = IF scans THEN << get_context_options(archive) >>
                                  ELSE _context_options
           /\ reads' = [reads EXCEPT !.network = @ + 1,
                                     !.browser = @ + (IF scans THEN 1 ELSE 0)]
    /\ UNCHANGED << archive, _events, _by_type, _parsed, _trace_start_ms,
                    _trace_start_time, query, result, calls, zf, parserVars >>

\* archive.get_wall_time() called by another user of the archive
ArchiveGetWallTime ==
    /\ reads.browser < MaxReads
    /\ acall' = [op |-> "get_wall_time", arg |-> ""]
    /\ outcome' = [kind |-> "return", value |-> get_wall_time(archive)]
    /\ _context_options' = IF _context_options = << >>
                           THEN << get_context_options(archive) >>
                           ELSE _context_options
    /\ reads' = [reads EXCEPT !.browser = @ + (IF _context_options = << >> THEN 1 ELSE 0)]
    /\ UNCHANGED << archive, _events, _by_type, _parsed, _trace_start_ms,
                    _trace_start_time, query, result, calls, zf, parserVars >>

NetworkNext == NetworkParse \/ ArchiveGetWallTime

SpecNetwork == NetworkInit /\ [][NetworkNext]_vars

\* --------------------------------------------- NetworkParser: the bodies
\* Python values a body can be
PyNone == [py |-> "None", v |-> ""]
PyStr(t) == [py |-> "str", v |-> t]
PyDict(t) == [py |-> "dict", v |-> t]

\* json.loads(text): an object, a string literal and null decode; the other
\* texts raise JSONDecodeError
JsonLoads(text) ==
    CASE text = "{\"a\": 1}" -> [kind |-> "return", value |-> PyDict("a: 1")]
      [] text = "\"s\"" -> [kind |-> "return", value |-> PyStr("s")]
      [] text = "null" -> [kind |-> "return", value |-> PyNone]
      [] OTHER -> [kind |-> "raise", value |-> "JSONDecodeError"]

\* str.lower() on the header names
Lower(name) == IF name = "Content-Type" THEN "content-type" ELSE name

\* "application/json" in content_type
ContainsJson(content_type) ==
    content_type \in {"application/json", "application/json; charset=utf-8"}

\* mutant: the header is looked up under the exact key "content-type"
RECURSIVE _get_content_type_ExactKey(_)
_get_content_type_ExactKey(headers) ==
    IF headers = << >> THEN ""
    ELSE IF Head(headers).name = "content-type" THEN Head(headers).value
         ELSE _get_content_type_ExactKey(Tail(headers))

\* _get_content_type(headers): headers is the dict in insertion order
RECURSIVE _get_content_type(_)
_get_content_type(headers) ==
    IF headers = << >> THEN ""
    ELSE IF Lower(Head(headers).name) = "content-type" THEN Head(headers).value
         ELSE _get_content_type(Tail(headers))

\* a postData / content dict: its _sha1 and text keys, Absent for a missing key
BodyData(sha1, text) == [sha1 |-> sha1, text |-> text]

\* _parse_body(body_data, content_type) over the archive's zip z
_parse_body(z, body_data, content_type) ==
    IF body_data.sha1 = << >> /\ body_data.text = << >> THEN PyNone
    ELSE LET body_text ==
                 IF body_data.sha1 # << >>
                 THEN get_resource_text(z, body_data.sha1[1]).value
                 ELSE body_data.text[1]
         IN  IF body_text = "None" \/ body_text = "" THEN PyNone
             ELSE IF ContainsJson(content_type)
                  THEN LET loaded == JsonLoads(body_text)
                       IN  IF loaded.kind = "raise" THEN PyStr(body_text)
                           ELSE loaded.value
                  ELSE PyStr(body_text)

\* ------------------------------------------------- SpecBody: the inputs
\* the zips: each resource is missing, UTF-8 text or other bytes
Zips ==
    UNION { [ names -> {"utf8-bytes", "jpeg-bytes"} ] : names \in SUBSET ResourcePaths }

MaxHeaders == 2
BodyTexts == {"", "{\"a\": 1}", "\"s\"", "null", "{oops"}
HeaderNames == {"Content-Type", "content-type", "Accept"}
HeaderValues == {"application/json; charset=utf-8", "text/html"}

\* header dicts: no name twice
HeaderDicts ==
    { h \in SeqsUpTo([name : HeaderNames, value : HeaderValues], MaxHeaders) :
        \A i, j \in 1..Len(h) : h[i].name = h[j].name => i = j }

BodyDatas ==
    { BodyData(<< >>, << >>), BodyData(<< "h1" >>, << >>), BodyData(<< "h1" >>, << "null" >>) }
    \cup { BodyData(<< >>, << t >>) : t \in BodyTexts }

\* the zips as far as the body of hash h1 goes
BodyZips == { z \in Zips : DOMAIN z \subseteq {ResourcePath("h1")} }

BodyInit ==
    /\ ParserIdle
    /\ IndexNew(EmptyArchive)
    /\ zf \in BodyZips
    /\ acall = NoCall
    /\ outcome = [kind |-> "none", value |-> ""]

\* the body of a request or response in _parse_entry: the content type of
\* its headers, then _parse_body
ParseBody ==
    \E body_data \in BodyDatas, headers \in HeaderDicts :
        /\ acall' = [op |-> "_parse_body", arg |-> [body_data |-> body_data,
                                                     headers |-> headers]]
        /\ outcome' = [kind |-> "return",
                       value |-> _parse_body(zf, body_data, _get_content_type(headers))]
        /\ UNCHANGED << zf, parserVars, indexVars >>

BodyNext == ParseBody

SpecBody == BodyInit /\ [][BodyNext]_vars

\* -------------------------------------------------- the screenshot command
EXIT_NO_RESULTS == 1
EXIT_INDEX_OUT_OF_RANGE == 5

Returns(code) == [kind |-> "return", value |-> code]

\* the parsed arguments of `screenshot`: Absent for an option not given
Args(list, all, action, error, at, index, allow_empty) ==
    [list |-> list, all |-> all, action |-> action, error |-> error, at |-> at,
     index |-> index, allow_empty |-> allow_empty]

_list_screenshots(bt, args) ==
    IF by_type(bt, "screenshot") = << >> /\ ~args.allow_empty
    THEN Returns(EXIT_NO_RESULTS)
    ELSE Returns(EXIT_SUCCESS)

\* _export_all: every screenshot's resource is read and written out
_export_all(z, bt, args) ==
    LET screenshots == by_type(bt, "screenshot")
    IN  IF screenshots = << >>
        THEN IF ~args.allow_empty THEN Returns(EXIT_NO_RESULTS) ELSE Returns(EXIT_SUCCESS)
        ELSE IF \E i \in 1..Len(screenshots) :
                    get_resource(z, screenshots[i].sha1).kind = "raise"
             THEN [kind |-> "raise", value |-> "KeyError"]
             ELSE Returns(EXIT_SUCCESS)

\* what the three modes that look for the closest screenshot do with it
OutputClosest(z, closest, args) ==
    IF closest = << >>
    THEN IF ~args.allow_empty THEN Returns(EXIT_NO_RESULTS) ELSE Returns(EXIT_NO_RESULTS)
    ELSE _output_screenshot(z, closest[1].sha1)

_screenshot_at_timestamp(z, bt, args) ==
    OutputClosest(z, closest_screenshot(bt, args.at), args)

_screenshot_by_index(z, bt, args) ==
    LET screenshots == by_type(bt, "screenshot")
    IN  IF args.index < 0 \/ args.index >= Len(screenshots)
        THEN Returns(EXIT_INDEX_OUT_OF_RANGE)
        ELSE _output_screenshot(z, screenshots[args.index + 1].sha1)

_screenshot_at_action(z, bt, args) ==
    LET actions == by_type(bt, "action")
    IN  IF args.action < 0 \/ args.action >= Len(actions)
        THEN Returns(EXIT_INDEX_OUT_OF_RANGE)
        ELSE OutputClosest(z, closest_screenshot(bt, actions[args.action + 1].timestamp_ms),
                           args)

_screenshot_at_error(z, events, bt, args) ==
    LET finite_events == SelectSeq(events, LAMBDA e : e.timestamp_ms # Inf)
    IN  IF finite_events = << >>
        THEN IF ~args.allow_empty THEN Returns(EXIT_NO_RESULTS) ELSE Returns(EXIT_NO_RESULTS)
        ELSE OutputClosest(z, closest_screenshot(bt,
                                  finite_events[Len(finite_events)].timestamp_ms), args)

\* screenshot.run(index, args) on a built index
run(z, events, bt, args) ==
    IF args.list THEN _list_screenshots(bt, args)
    ELSE IF args.all THEN _export_all(z, bt, args)
    ELSE IF args.action # Absent THEN _screenshot_at_action(z, bt, args)
    ELSE IF args.error THEN _screenshot_at_error(z, events, bt, args)
    ELSE IF args.at # Absent THEN _screenshot_at_timestamp(z, bt, args)
    ELSE IF args.index # Absent THEN _screenshot_by_index(z, bt, args)
    ELSE _list_screenshots(bt, args)

\* ------------------------------------------ SpecScreenshot: the command
ScreenshotEntries ==
    { Entry("console", "", "", 0, ""),
      Entry("screencast-frame", "", "", 0, "h1"),
      Entry("screencast-frame", "", "", MaxTime, "h1"),
      Entry("before", "c1", "", 0, ""),
      Entry("after", "c1", "", MaxTime, "") }

ScreenshotArchives ==
    { [network |-> << >>, browser |-> b, test |-> t] :
        b \in SeqsUpTo(ScreenshotEntries, MaxBrowser), t \in IndexTestStreams }

\* one selection mode at a time, or none, each with and without --allow-empty
ScreenshotArgs ==
    { Args(l, a, Absent, e, Absent, Absent, ae) :
        l \in BOOLEAN, a \in BOOLEAN, e \in BOOLEAN, ae \in BOOLEAN }
    \cup { Args(FALSE, FALSE, i, FALSE, Absent, Absent, ae) : i \in 0..1, ae \in BOOLEAN }
    \cup { Args(FALSE, FALSE, Absent, FALSE, t, Absent, ae) : t \in Times, ae \in BOOLEAN }
    \cup { Args(FALSE, FALSE, Absent, FALSE, Absent, i, ae) : i \in 0..MaxBrowser,
                                                             ae \in BOOLEAN }

ScreenshotInit ==
    /\ ParserIdle
    /\ \E a \in ScreenshotArchives : IndexNew(a)
    /\ zf \in BodyZips
    /\ acall = NoCall
    /\ outcome = [kind |-> "none", value |-> ""]

\* the command run on the index: its first query builds the index
Screenshot ==
    \E args \in ScreenshotArgs :
        /\ acall' = [op |-> "screenshot", arg |-> args]
        /\ _ensure_parsed
        /\ outcome' = run(zf, _events', _by_type', args)
        /\ UNCHANGED << archive, query, result, calls, zf, parserVars >>

ScreenshotNext == Screenshot

SpecScreenshot == ScreenshotInit /\ [][ScreenshotNext]_vars

\* ----------------------------------------------- SpecArchive: resources
ArchiveInit ==
    /\ ParserIdle
    /\ IndexNew(EmptyArchive)
    /\ zf \in Zips
    /\ acall = NoCall
    /\ outcome = [kind |-> "none", value |-> ""]

GetResource ==
    \E sha1_or_path \in Hashes \cup ResourcePaths :
        /\ acall' = [op |-> "get_resource", arg |-> sha1_or_path]
        /\ outcome' = get_resource(zf, sha1_or_path)
        /\ UNCHANGED << zf, parserVars, indexVars >>

GetResourceText ==
    \E sha1_or_path \in Hashes \cup ResourcePaths :
        /\ acall' = [op |-> "get_resource_text", arg |-> sha1_or_path]
        /\ outcome' = get_resource_text(zf, sha1_or_path)
        /\ UNCHANGED << zf, parserVars, indexVars >>

OutputScreenshot ==
    \E sha1 \in Hashes :
        /\ acall' = [op |-> "_output_screenshot", arg |-> sha1]
        /\ outcome' = _output_screenshot(zf, sha1)
        /\ UNCHANGED << zf, parserVars, indexVars >>

\* TraceArchive(path) on a path of each kind; a zip holds the entries zf
Open ==
    \E file \in FileKinds :
        /\ acall' = [op |-> "TraceArchive", arg |-> file]
        /\ outcome' = TraceArchive(file, zf)
        /\ UNCHANGED << zf, parserVars, indexVars >>

Main ==
    \E file \in FileKinds, sha1 \in Hashes :
        /\ acall' = [op |-> "main", arg |-> file]
        /\ outcome' = main(file, zf, sha1)
        /\ UNCHANGED << zf, parserVars, indexVars >>

ArchiveNext == GetResource \/ GetResourceText \/ OutputScreenshot \/ Open \/ Main

SpecArchive == ArchiveInit /\ [][ArchiveNext]_vars

\* ================================================================== claims
\* what a query returns on the index state (events, bt)
Answer(q, events, bt) ==
    CASE q.op = "all" -> events
      [] q.op = "by_type" -> by_type(bt, q.type)
      [] q.op = "in_range" -> in_range(events, q.a, q.b)
      [] q.op = "after" -> after(events, q.a)
      [] q.op = "before" -> before(events, q.a)
      [] q.op = "get_by_index" -> get_by_index(events, q.a)
      [] q.op = "correlate" -> correlate(events, q.a, q.b)
      [] q.op = "closest_screenshot" -> closest_screenshot(bt, q.a)
      [] q.op = "get_summary" -> get_summary(events, bt)

SortedByTimestamp(s) ==
    \A i \in 1..(Len(s) - 1) : s[i].timestamp_ms <= s[i + 1].timestamp_ms

InfAtTail(s) ==
    \A i, j \in 1..Len(s) :
        s[i].timestamp_ms = Inf /\ s[j].timestamp_ms # Inf => j < i

\* C1: once the index is built, the sequence all() yields is sorted by
\* timestamp_ms (each event's timestamp is <= the next one's) and every event
\* with timestamp +infinity comes after every event with a finite timestamp.
C1_AllSorted ==
    /\ _parsed => SortedByTimestamp(_events) /\ InfAtTail(_events)
    /\ query.op = "all" => /\ result = _events
                           /\ SortedByTimestamp(result)
                           /\ InfAtTail(result)

\* all() answered on an archive whose parsers emit the events out of order,
\* an error event among them.
C1_Witness ==
    /\ query.op = "all"
    /\ \E i, j \in 1..Len(CollectEvents(archive)) :
         /\ i < j
         /\ CollectEvents(archive)[i].timestamp_ms > CollectEvents(archive)[j].timestamp_ms
    /\ \E i \in 1..Len(result) : result[i].timestamp_ms = Inf
    /\ \E i \in 1..Len(result) : result[i].timestamp_ms # Inf

\* C2: after the build the sequence_index values of all() are 0, 1, ...,
\* count-1 in that order; get_by_index(i) returns the i-th element of all()
\* for i in [0, count) and None for every other i, negative ones included.
C2_DenseIndex ==
    /\ _parsed => \A i \in 1..Len(_events) : _events[i].index = i - 1
    /\ query.op = "get_by_index" =>
         IF 0 <= query.a /\ query.a < Len(_events)
         THEN /\ result = << _events[query.a + 1] >>
              /\ result[1].index = query.a
         ELSE result = << >>

\* get_by_index of the last position, on an index where the parser had given
\* that event another index.
C2_Witness ==
    /\ query.op = "get_by_index"
    /\ query.a >= 1
    /\ query.a = Len(_events) - 1
    /\ result # << >>
    /\ \E e \in { CollectEvents(archive)[k] : k \in 1..Len(CollectEvents(archive)) } :
         /\ e.index # query.a
         /\ [e EXCEPT !.index = query.a] = result[1]

\* C3: queries are idempotent. A query asked of a handle that has already
\* answered one leaves the indexed events, their order, their sequence_index,
\* the type index and the archive as they were, and returns what the index
\* held before the call determines: asked again, it returns the same.
C3_QueriesIdempotent ==
    [][ (calls >= 1 /\ query' # NoQuery) =>
          /\ _events' = _events
          /\ _by_type' = _by_type
          /\ archive' = archive
          /\ result' = Answer(query', _events, _by_type) ]_vars

\* a third or later query on one handle: correlate returning a screenshot
C3_Witness ==
    /\ calls = 2
    /\ query.op = "correlate"
    /\ result["screenshot"] # << >>

\* the naive filter over all()
NaiveInRange(events, start_ms, end_ms) ==
    SelectSeq(events, LAMBDA e : start_ms <= e.timestamp_ms /\ e.timestamp_ms <= end_ms)

\* C4: in_range(start, end) yields exactly the events of all() with
\* start <= timestamp_ms <= end, in the order of all(): the early exit never
\* omits an event the naive filter returns.
C4_InRangeIsFilter ==
    query.op = "in_range" => result = NaiveInRange(_events, query.a, query.b)

\* in_range that skips an event before start, returns one and stops at one
\* past end
C4_Witness ==
    /\ query.op = "in_range"
    /\ result # << >>
    /\ \E i \in 1..Len(_events) : _events[i].timestamp_ms < query.a
    /\ \E i \in 1..Len(_events) : _events[i].timestamp_ms > query.b

\* C5: every entry correlate(t, w) returns in a type group is an indexed
\* event of that type with |timestamp_ms - t| <= w, carries
\* distance = |timestamp_ms - t|, and each group is in ascending distance.
C5_CorrelateSound ==
    query.op = "correlate" =>
        \A t \in DOMAIN result :
            /\ \A k \in 1..Len(result[t]) :
                 /\ result[t][k].event.event_type = t
                 /\ \E i \in 1..Len(_events) : to_dict(_events[i]) = result[t][k].event
                 /\ Abs(result[t][k].event.timestamp_ms - query.a) <= query.b
                 /\ result[t][k].distance_ms
                      = Abs(result[t][k].event.timestamp_ms - query.a)
            /\ \A k \in 1..(Len(result[t]) - 1) :
                 result[t][k].distance_ms <= result[t][k + 1].distance_ms

\* a group of two console events that the sort by distance put in the reverse
\* of their chronological order
C5_Witness ==
    /\ query.op = "correlate"
    /\ Len(result["console"]) = 2
    /\ result["console"][1].event.timestamp_ms > result["console"][2].event.timestamp_ms
    /\ result["console"][1].distance_ms < result["console"][2].distance_ms

\* C6: correlate(t, w) is complete over the closed set of event types: every
\* indexed event with timestamp_ms in [t-w, t+w] appears in the group of its
\* own type.
C6_CorrelateComplete ==
    query.op = "correlate" =>
        \A i \in 1..Len(_events) :
            Abs(FloatSub(_events[i].timestamp_ms, query.a)) <= query.b =>
                /\ _events[i].event_type \in DOMAIN result
                /\ \E k \in 1..Len(result[_events[i].event_type]) :
                     result[_events[i].event_type][k].event = to_dict(_events[i])

\* the action events among the yielded ones
ActionsOf(out) == SelectSeq(out, LAMBDA e : e.event_type = "action")

IsBefore(e, X) == e.type = "before" /\ e.callId = X
IsAfter(e, X) == e.type = "after" /\ e.callId = X

\* C7 as stated: when the stream is exhausted, every before (callId=X,
\* startTime=s) followed later by an after (callId=X, endTime=e) has made the
\* parser emit exactly one ActionEvent for X, with timestamp_ms = s and
\* duration_ms = e - s.
C7_EveryBeforeThenAfter ==
    pc = "done" =>
        \A i, j \in 1..Len(stream) :
            \A X \in CallIds \ {""} :
                (i < j /\ IsBefore(stream[i], X) /\ IsAfter(stream[j], X)
                   /\ stream[j].time # Absent) =>
                    LET forX == SelectSeq(ActionsOf(parser.out), LAMBDA a : a.call_id = X)
                    IN  /\ Len(forX) = 1
                        /\ forX[1].timestamp_ms = stream[i].time
                        /\ forX[1].duration_ms = stream[j].time - stream[i].time

\* the before pending for X when the record at j arrives: the nearest earlier
\* record with call id X is a before
PendingAt(s, j, X) ==
    LET earlier == { i \in 1..(j - 1) : s[i].callId = X /\ s[i].type \in {"before", "after"} }
    IN  IF earlier = {} THEN 0
        ELSE LET i == CHOOSE m \in earlier : \A n \in earlier : n <= m
             IN  IF s[i].type = "before" THEN i ELSE 0

\* positions of the after records that arrive with a before pending
PairedAfters(s) ==
    { j \in 1..Len(s) : /\ s[j].type = "after"
                        /\ s[j].callId # ""
                        /\ PendingAt(s, j, s[j].callId) # 0 }

\* C7 (amended): for every non-empty call id X, a before (callId=X,
\* startTime=s) and a later after (callId=X, endTime=e) with no other before or
\* after of call id X between them make the parser emit exactly one ActionEvent
\* for that pair, with timestamp_ms = s and duration_ms = e - s; these are the
\* only action events, in the order of their after records.
C7_PairedSpan ==
    LET afters == PairedAfters(stream)
        acts == ActionsOf(parser.out)
    IN  /\ Len(acts) = Cardinality(afters)
        /\ \A j \in afters :
             LET k == Cardinality({ m \in afters : m <= j })
                 i == PendingAt(stream, j, stream[j].callId)
             IN  /\ acts[k].call_id = stream[j].callId
                 /\ acts[k].timestamp_ms = stream[i].time
                 /\ stream[j].time # Absent =>
                      acts[k].duration_ms = stream[j].time - stream[i].time

\* a span of positive duration, paired across a record of another call id
C7_Witness ==
    /\ pc = "done"
    /\ Len(stream) = 3
    /\ IsBefore(stream[1], "c1") /\ stream[1].time = 0
    /\ IsBefore(stream[2], "c2")
    /\ IsAfter(stream[3], "c1") /\ stream[3].time = MaxTime
    /\ Len(ActionsOf(parser.out)) = 1
    /\ ActionsOf(parser.out)[1].duration_ms = MaxTime

\* C8: a before with call id Y that no after with call id Y follows produces
\* no ActionEvent for Y; in every prefix of the stream an ActionEvent is
\* emitted only when an after record arrives whose call id has a pending
\* before, one event per such record.
C8_OnlyOnPairedAfter ==
    /\ [] (\A Y \in CallIds :
             (\A i, j \in 1..Len(stream) :
                 ~(i < j /\ IsBefore(stream[i], Y) /\ IsAfter(stream[j], Y)))
             => \A k \in 1..Len(parser.out) :
                    ~(parser.out[k].event_type = "action" /\ parser.out[k].call_id = Y))
    /\ [][ ActionsOf(parser'.out) # ActionsOf(parser.out) =>
             /\ Len(stream') = Len(stream) + 1
             /\ stream'[Len(stream')].type = "after"
             /\ stream'[Len(stream')].callId \in DOMAIN parser.before_events
             /\ Len(ActionsOf(parser'.out)) = Len(ActionsOf(parser.out)) + 1
             /\ ActionsOf(parser'.out)[Len(ActionsOf(parser'.out))].call_id
                  = stream'[Len(stream')].callId ]_vars

\* the stream ended with a before of c1 still pending, after a completed span
\* of c2
C8_Witness ==
    /\ pc = "done"
    /\ "c1" \in DOMAIN parser.before_events
    /\ Len(ActionsOf(parser.out)) = 1
    /\ \A k \in 1..Len(parser.out) : parser.out[k].call_id # "c1"

\* C9: an after record whose call id has no pending before is dropped: it
\* emits no event, stops nothing and leaves the pending map unchanged; an after
\* that pairs removes the pending entry (and only that one), so one before is
\* paired with at most one after.
C9_UnmatchedAfterDropped ==
    [][ (Len(stream') = Len(stream) + 1 /\ stream'[Len(stream')].type = "after") =>
          LET call_id == stream'[Len(stream')].callId
          IN  IF call_id \in DOMAIN parser.before_events
              THEN /\ call_id \notin DOMAIN parser'.before_events
                   /\ parser'.before_events
                        = [x \in DOMAIN parser.before_events \ {call_id} |->
                             parser.before_events[x]]
                   /\ Len(parser'.out) = Len(parser.out) + 1
              ELSE /\ parser' = parser
                   /\ pc' = "running" ]_vars

\* a before of c1 paired by the first after, the second after of c1 dropped
C9_Witness ==
    /\ Len(stream) = 3
    /\ IsBefore(stream[1], "c1")
    /\ IsAfter(stream[2], "c1")
    /\ IsAfter(stream[3], "c1")
    /\ Len(parser.out) = 1
    /\ parser.before_events = << >>

\* C10: get_resource on a hash with no entry under resources/ returns a typed
\* 'resource not found' result and raises no exception; on a present hash it
\* returns the bytes of resources/<hash>.
C10_NotFoundIsAResult ==
    acall.op = "get_resource" =>
        LET name == IF StartsWithResources(acall.arg) THEN acall.arg
                    ELSE ResourcePath(acall.arg)
        IN  IF name \in DOMAIN zf
            THEN outcome = [kind |-> "return", value |-> zf[name]]
            ELSE outcome.kind = "return"

\* C11: get_resource_text never raises: it returns the decoded text when the
\* resource exists and is valid UTF-8, and the no-text result both when the
\* resource is missing and when its bytes cannot be decoded.
C11_TextOrNone ==
    acall.op = "get_resource_text" =>
        LET name == IF StartsWithResources(acall.arg) THEN acall.arg
                    ELSE ResourcePath(acall.arg)
        IN  /\ outcome.kind = "return"
            /\ outcome.value = IF name \in DOMAIN zf /\ zf[name] = "utf8-bytes"
                               THEN "text" ELSE "None"

\* the text of a resource whose bytes are not UTF-8 was asked for by its hash
C11_Witness ==
    /\ acall = [op |-> "get_resource_text", arg |-> "h2"]
    /\ "resources/h2" \in DOMAIN zf
    /\ zf["resources/h2"] = "jpeg-bytes"
    /\ outcome = [kind |-> "return", value |-> "None"]

\* C12: opening an archive at a path that does not exist fails with the
\* not-found error, opening a zero-byte or garbage file fails with the
\* corrupt-archive error, and the command line returns exit code 3 for the
\* first and 4 for the second instead of letting the exception escape.
C12_OpenFailures ==
    /\ acall.op = "TraceArchive" =>
          /\ acall.arg = "missing" =>
                outcome = [kind |-> "raise", value |-> "FileNotFoundError"]
          /\ acall.arg \in {"empty", "garbage"} =>
                outcome = [kind |-> "raise", value |-> "BadZipFile"]
    /\ acall.op = "main" =>
          /\ outcome.kind = "return"
          /\ acall.arg = "missing" => outcome.value = 3
          /\ acall.arg \in {"empty", "garbage"} => outcome.value = 4

\* the command line was run on a file of garbage and returned 4
C12_Witness ==
    /\ acall = [op |-> "main", arg |-> "garbage"]
    /\ outcome = [kind |-> "return", value |-> 4]

\* how long after the trace start the records of a ClockArchive happened
Instant(a) == a.browser[2].time - a.browser[1].time

\* C13: every event's timestamp_ms is milliseconds relative to trace start for
\* all three sources: the network, runtime and test events of one instant get
\* the same timestamp_ms, the time since trace start, whatever the archive's
\* trace start monotonic time and wall-clock start time are.
C13_RelativeToTraceStart ==
    _parsed =>
        /\ Len(_events) = 3
        /\ \A i \in 1..Len(_events) : _events[i].timestamp_ms = Instant(archive)

\* C14: every event made from an error record of the test stream has
\* timestamp_ms = +inf and stands after every finite-timestamp event of the
\* built index; the index is built over such records and the queries'
\* arithmetic never meets the sentinel.
C14_ErrorsLast ==
    _parsed =>
        /\ Cardinality({ i \in 1..Len(_events) : _events[i].event_type = "error" })
             = Cardinality({ k \in 1..Len(archive.test) : archive.test[k].type = "error" })
        /\ \A i \in 1..Len(_events) :
              _events[i].event_type = "error" =>
                  /\ _events[i].timestamp_ms = Inf
                  /\ \A j \in 1..Len(_events) :
                        _events[j].timestamp_ms # Inf => j < i
        /\ query.op = "get_summary" => result.duration_ms < Inf
        /\ query.op = "correlate" =>
              \A t \in DOMAIN result : \A k \in 1..Len(result[t]) :
                  result[t][k].distance_ms < Inf

\* an index of two finite events and an error, summarised
C14_Witness ==
    /\ _parsed
    /\ Len(_events) = 3
    /\ _events[1].timestamp_ms < _events[2].timestamp_ms
    /\ _events[2].timestamp_ms < Inf
    /\ _events[3].event_type = "error"
    /\ query.op = "get_summary"
    /\ result.duration_ms > 0

\* the positions of the events with a finite timestamp
FinitePositions(events) ==
    { i \in 1..Len(events) : events[i].timestamp_ms # Inf }

\* how many events of the type the summary counts
CountOf(counts, t) == IF t \in DOMAIN counts THEN counts[t] ELSE 0

RECURSIVE SumCounts(_, _)
SumCounts(counts, types) ==
    IF types = {} THEN 0
    ELSE LET t == CHOOSE x \in types : TRUE
         IN  counts[t] + SumCounts(counts, types \ {t})

\* C15: get_summary() reports duration_ms = last finite timestamp - first
\* finite timestamp, 0 when no event has a finite timestamp; its per-type
\* counts are the numbers of indexed events of each type and sum to
\* total_events; has_errors is true exactly when an error event is indexed.
C15_Summary ==
    query.op = "get_summary" =>
        LET F == FinitePositions(_events)
            first == CHOOSE i \in F : \A j \in F : i <= j
            last == CHOOSE i \in F : \A j \in F : j <= i
        IN  /\ result.duration_ms =
                  IF F = {} THEN 0
                  ELSE _events[last].timestamp_ms - _events[first].timestamp_ms
            /\ DOMAIN result.event_counts \subseteq EventTypes
            /\ \A t \in EventTypes :
                  CountOf(result.event_counts, t) =
                      Cardinality({ i \in 1..Len(_events) : _events[i].event_type = t })
            /\ SumCounts(result.event_counts, DOMAIN result.event_counts)
                  = result.total_events
            /\ result.total_events = Len(_events)
            /\ result.has_errors <=>
                  \E i \in 1..Len(_events) : _events[i].event_type = "error"

\* the summary of two console events MaxTime apart and an error
C15_Witness ==
    /\ query.op = "get_summary"
    /\ result.total_events = 3
    /\ result.has_errors
    /\ result.duration_ms = MaxTime
    /\ CountOf(result.event_counts, "console") = 2

\* the events of all() that have the type, in the order of all()
OfType(events, t) == SelectSeq(events, LAMBDA e : e.event_type = t)

\* C16: by_type(t) yields exactly the events of all() whose type is t, in the
\* same relative order; the per-type lists partition the events; a type with
\* no events yields the empty sequence.
C16_ByTypePartition ==
    /\ query.op = "by_type" => result = OfType(_events, query.type)
    /\ _parsed =>
          /\ DOMAIN _by_type \subseteq EventTypes
          /\ \A t \in EventTypes : by_type(_by_type, t) = OfType(_events, t)

\* by_type("console") on an index of two console events around another event
C16_Witness ==
    /\ query.op = "by_type"
    /\ query.type = "console"
    /\ Len(_events) = 3
    /\ _events[2].event_type # "console"
    /\ Len(result) = 2

\* C17: before(t) yields exactly the events with timestamp_ms <= t and
\* after(t) exactly those with timestamp_ms >= t, both in chronological
\* order; the early exit of before never leaves out a qualifying event.
C17_BeforeAfter ==
    /\ query.op = "before" =>
          /\ result = SelectSeq(_events, LAMBDA e : e.timestamp_ms <= query.a)
          /\ SortedByTimestamp(result)
    /\ query.op = "after" =>
          /\ result = SelectSeq(_events, LAMBDA e : e.timestamp_ms >= query.a)
          /\ SortedByTimestamp(result)

\* before(1) ended its scan early and kept an event at 1
C17_Witness ==
    /\ query.op = "before"
    /\ query.a = 1
    /\ result # << >>
    /\ result[Len(result)].timestamp_ms = 1
    /\ Len(result) < Len(_events)

\* C18: closest_screenshot(t) returns 'none' exactly when the index holds no
\* screenshot event; otherwise it returns a screenshot s of the index with
\* |s.timestamp_ms - t| <= |s'.timestamp_ms - t| for every screenshot s'.
C18_ClosestIsNearest ==
    query.op = "closest_screenshot" =>
        LET shots == { i \in 1..Len(_events) : _events[i].event_type = "screenshot" }
        IN  /\ result = << >> <=> shots = {}
            /\ result # << >> =>
                  /\ \E i \in shots : result[1] = _events[i]
                  /\ \A j \in shots :
                        Abs(result[1].timestamp_ms - query.a)
                            <= Abs(_events[j].timestamp_ms - query.a)

\* of two screenshots the later one is the closest to MaxTime
C18_Witness ==
    /\ query.op = "closest_screenshot"
    /\ query.a = MaxTime
    /\ Len(OfType(_events, "screenshot")) = 2
    /\ result # << >>
    /\ result[1].timestamp_ms = MaxTime
    /\ result[1].index = 1

RecordLines(z, name) ==
    IF name \in DOMAIN z THEN SelectSeq(z[name], LAMBDA l : l.kind = "json") ELSE << >>

\* C20: for each logical stream, a line that cannot be decoded into a JSON
\* record is skipped and never aborts the read: the stream yields the records
\* of all remaining lines in their original order, and the parsers and the
\* index construction complete over them.
C20_UndecodableSkipped ==
    /\ acall.op = "iter" =>
          /\ outcome.kind = "return"
          /\ outcome.value = RecordLines(zf, acall.arg)
    /\ acall.op = "_ensure_parsed" =>
          /\ outcome.kind = "return"
          /\ _parsed
          /\ _events = BuildEvents(Decoded(zf))

\* the same, for lines that are text and not JSON: the one case the read
\* recovers from
C20_MalformedJsonSkipped ==
    (\A name \in DOMAIN zf : \A i \in 1..Len(zf[name]) :
        zf[name][i].kind \in {"json", "malformed", "blank"})
    => C20_UndecodableSkipped

\* an event as its parser emitted it, whatever index it carries
Emitted(e) == [e EXCEPT !.index = 0]

TimesIn(e, s) == Cardinality({ i \in 1..Len(s) : Emitted(s[i]) = Emitted(e) })

\* events is the sorted, re-indexed merge of emitted and bt its partition
CompleteIndex(events, bt, emitted) ==
    /\ Len(events) = Len(emitted)
    /\ \A i \in 1..Len(emitted) : TimesIn(emitted[i], events) = TimesIn(emitted[i], emitted)
    /\ \A i \in 1..(Len(events) - 1) :
          ~TupleLess(SortKey(events[i + 1]), SortKey(events[i]))
    /\ \A i \in 1..Len(events) : events[i].index = i - 1
    /\ \A t \in EventTypes : by_type(bt, t) = OfType(events, t)

\* C21: index construction is all-or-nothing: the index is either unbuilt (no
\* events observable, not marked built) or marked built and holding the
\* complete sorted, re-indexed and type-partitioned merge of what the three
\* parsers emitted; an attempt that propagates an error leaves no partial
\* event list or type grouping.
C21_AllOrNothing ==
    IF _parsed
    THEN CompleteIndex(_events, _by_type, CollectEvents(Decoded(zf)))
    ELSE _events = << >> /\ _by_type = << >>

\* a build that failed in the runtime parser after the network parser had
\* emitted an event
C21_Witness ==
    /\ acall.op = "_ensure_parsed"
    /\ outcome = [kind |-> "raise", value |-> "AttributeError"]
    /\ reads = [network |-> 1, browser |-> 2, test |-> 0]
    /\ Len(RecordLines(zf, "0-trace.network")) = 1
    /\ ~_parsed
    /\ _events = << >>

\* queries whose answers show what the index holds
ProbeQueries ==
    { [op |-> "all", type |-> "", a |-> 0, b |-> 0],
      [op |-> "get_summary", type |-> "", a |-> 0, b |-> 0] }
    \cup { [op |-> "before", type |-> "", a |-> t, b |-> 0] : t \in Times }

\* C22: what a query returns is plain data and no live handle into the
\* index: whatever the caller does with a value it was returned, while it
\* holds it, every later query on the handle answers as it would have.
C22_NoLiveHandle ==
    [][ (query # NoQuery /\ query' = query) =>
          \A q \in ProbeQueries :
              Answer(q, _events', _by_type') = Answer(q, _events, _by_type) ]_vars

\* the value of the first header of the dict named content-type in any case
ContentTypeOf(headers) ==
    LET hits == { i \in 1..Len(headers) :
                    headers[i].name \in {"Content-Type", "content-type"} }
    IN  IF hits = {} THEN ""
        ELSE headers[CHOOSE i \in hits : \A j \in hits : i <= j].value

\* the body text of a postData / content dict: << >> when there is none
BodyTextOf(z, body_data) ==
    IF body_data.sha1 # << >>
    THEN IF ResourcePath(body_data.sha1[1]) \in DOMAIN z
            /\ z[ResourcePath(body_data.sha1[1])] = "utf8-bytes"
         THEN << "text" >> ELSE << >>
    ELSE IF body_data.text \in {<< >>, << "" >>} THEN << >> ELSE body_data.text

ModeOf(args) ==
    IF args.list THEN "list" ELSE IF args.all THEN "all"
    ELSE IF args.action # Absent THEN "action" ELSE IF args.error THEN "error"
    ELSE IF args.at # Absent THEN "at" ELSE "other"

\* the command finds nothing: no screenshot to list, export or pick, or for
\* --error no event to take the time from
NothingFound(args, events) ==
    LET shots == OfType(events, "screenshot")
        mode == ModeOf(args)
    IN  /\ mode # "other"
        /\ shots = << >> \/ (mode = "error" /\ FinitePositions(events) = {})
        /\ mode = "action" => args.action < Len(OfType(events, "action"))

\* C24: with --allow-empty the screenshot command exits with code 0 even when
\* no result is found, in every selection mode (--list, --all, --at, --action,
\* --error); without it the command exits with code 1 when nothing is found.
C24_AllowEmptyExitsZero ==
    (acall.op = "screenshot" /\ NothingFound(acall.arg, _events)) =>
        outcome = Returns(IF acall.arg.allow_empty THEN 0 ELSE 1)

\* the events of s with the timestamp and the type, as emitted
Tied(s, ts, t) ==
    LET hits == SelectSeq(s, LAMBDA e : e.timestamp_ms = ts /\ e.event_type = t)
    IN  [i \in 1..Len(hits) |-> Emitted(hits[i])]

\* C25: the indexed sequence is the stable sort of the emission sequence
\* (network, then runtime, then test events, each in stream order) by
\* (timestamp_ms, event_type): equal timestamps are ordered by type name,
\* and events of equal timestamp and type keep their emission order.
C25_StableByTimeThenType ==
    _parsed =>
        LET emitted == CollectEvents(archive)
        IN  /\ Len(_events) = Len(emitted)
            /\ \A i \in 1..(Len(_events) - 1) :
                  \/ _events[i].timestamp_ms < _events[i + 1].timestamp_ms
                  \/ /\ _events[i].timestamp_ms = _events[i + 1].timestamp_ms
                     /\ TypeRank(_events[i].event_type)
                           <= TypeRank(_events[i + 1].event_type)
            /\ \A ts \in Times \cup {Inf}, t \in EventTypes :
                  Tied(_events, ts, t) = Tied(emitted, ts, t)

\* two frames of one instant keep their stream order, h2 before h1, and a
\* console event emitted after them is indexed before them
C25_Witness ==
    /\ _parsed
    /\ Len(archive.browser) = 3
    /\ archive.browser[3].type = "console"
    /\ Len(_events) = 3
    /\ _events[1].event_type = "console"
    /\ _events[2].sha1 = "h2"
    /\ _events[3].sha1 = "h1"
    /\ _events[3].timestamp_ms = _events[1].timestamp_ms

\* C26: the pending-span map is scoped to one pass of a parser over its
\* stream and discarded when the stream is exhausted: a second run of
\* parse() to exhaustion on the same parser over the same stream emits
\* exactly the events of the first run, and no before left pending by the
\* first run is paired with an after of the second.
C26_SecondRunSame ==
    pc = "again" => parser.out = BrowserRun(ParserInit, stream).out

\* the key of the context options a getter answers with
KeyOf(op) ==
    CASE op = "get_trace_start_time" -> "monotonicTime"
      [] op = "get_wall_time" -> "wallTime"
      [] op = "get_test_name" -> "title"
      [] op = "get_browser_name" -> "browserName"
      [] op = "get_viewport" -> "viewport"
      [] OTHER -> ""

\* the first context-options record among the records of the runtime
\* stream, << >> when there is none
FirstContextRecord(z) ==
    LET items == IF "0-trace.trace" \in DOMAIN z
                 THEN SelectSeq(z["0-trace.trace"],
                                LAMBDA l : l.kind = "json"
                                           /\ l.rec[1].type = "context-options")
                 ELSE << >>
    IN  IF items = << >> THEN << >> ELSE << items[1].rec[1] >>

\* C27: get_context_options() returns the first context-options record of
\* the runtime stream (an empty record when there is none) and memoizes it:
\* over any sequence of calls to the six getters the runtime stream is
\* scanned at most once and every call answers from that record.
C27_ScannedAtMostOnce ==
    /\ reads.browser <= 1
    /\ (acall.op # "none" /\ outcome.kind = "return") =>
          outcome.value = IF KeyOf(acall.op) = "" THEN FirstContextRecord(zf)
                          ELSE CtxGet(FirstContextRecord(zf), KeyOf(acall.op))

\* lemma: every call that returns answers from the first context-options
\* record, and once a call has returned the stream is not scanned again
C27_MemoizedOnceReturned ==
    /\ [](outcome.kind = "return" =>
            /\ _context_options = << FirstContextRecord(zf) >>
            /\ outcome.value = IF KeyOf(acall.op) = "" THEN FirstContextRecord(zf)
                               ELSE CtxGet(FirstContextRecord(zf), KeyOf(acall.op)))
    /\ [][_context_options # << >> => reads' = reads]_vars

\* the resource snapshots of a network stream, in stream order
Snapshots(entries) == SelectSeq(entries, LAMBDA e : e.type = "resource-snapshot")

\* the wall-clock start of the archive: wallTime of its first context-options
\* record, 0 without one
WallClockStart(a) ==
    LET ctx == SelectSeq(a.browser, LAMBDA e : e.type = "context-options")
    IN  IF ctx = << >> \/ ctx[1].wall = Absent THEN 0 ELSE ctx[1].wall

\* C28: network timestamps follow a fixed precedence: the snapshot's
\* _monotonicTime when it carries one, whatever startedDateTime holds;
\* otherwise a parsable startedDateTime in epoch milliseconds minus the
\* archive's wall-clock start; 0 when neither field is present.
C28_TimestampPrecedence ==
    acall.op = "NetworkParser.parse" =>
        LET snaps == Snapshots(archive.network)
            events == outcome.value
        IN  /\ Len(events) = Len(snaps)
            /\ \A i \in 1..Len(snaps) :
                  LET s == snaps[i]
                      t == events[i].timestamp_ms
                  IN  /\ s.mono # Absent => t = s.mono
                      /\ (s.mono = Absent /\ s.started \notin {Absent, BadDate}) =>
                            t = s.started - WallClockStart(archive)
                      /\ (s.mono = Absent /\ s.started = Absent) => t = 0

\* a snapshot with both fields is stamped with _monotonicTime, and one with
\* startedDateTime alone with its distance from a wall-clock start of 1
C28_Witness ==
    /\ acall.op = "NetworkParser.parse"
    /\ WallClockStart(archive) = 1
    /\ archive.network = << NetEntry("resource-snapshot", 0, MaxTime + 1),
                            NetEntry("resource-snapshot", Absent, MaxTime + 1) >>
    /\ Len(outcome.value) = 2
    /\ outcome.value[1].timestamp_ms = 0
    /\ outcome.value[2].timestamp_ms = MaxTime

\* C29: the test-run parser reconstructs spans as the runtime parser does,
\* keyed by step identifier: side by side on the same before/after records
\* both have emitted, after every record, the same number of ActionEvents
\* with the same timestamp_ms and duration_ms, and the test-run parser pairs
\* a before only with an after carrying the same step identifier.
C29_SameSpans ==
    /\ [] LET test == ActionsOf(test_parser.out)
              runtime == ActionsOf(parser.out)
          IN  /\ Len(test) = Len(runtime)
              /\ \A k \in 1..Len(test) :
                    /\ test[k].timestamp_ms = runtime[k].timestamp_ms
                    /\ test[k].duration_ms = runtime[k].duration_ms
              /\ \A id \in DOMAIN test_parser.before_events :
                    StepIdOf(test_parser.before_events[id]) = id
    /\ [][ ActionsOf(test_parser'.out) # ActionsOf(test_parser.out) =>
             LET closing == stream'[Len(stream')]
                 id == StepIdOf(closing)
                 test == ActionsOf(test_parser'.out)
             IN  /\ closing.type = "after"
                 /\ id \in DOMAIN test_parser.before_events
                 /\ StepIdOf(test_parser.before_events[id]) = id
                 /\ Len(test) = Len(ActionsOf(test_parser.out)) + 1
                 /\ test[Len(test)].timestamp_ms
                      = Get(test_parser.before_events[id].time, 0) ]_vars

\* a step begun under stepId s1 and ended by an after that carries s1 as its
\* callId and no endTime: both parsers emit the one span, of duration 0
C29_Witness ==
    /\ pc = "done"
    /\ Len(stream) = 3
    /\ stream[1] = Entry("before", "", "s1", MaxTime, "")
    /\ stream[2] = Entry("error", "", "", Absent, "")
    /\ stream[3] = Entry("after", "s1", "", Absent, "")
    /\ Len(ActionsOf(test_parser.out)) = 1
    /\ Len(ActionsOf(parser.out)) = 1
    /\ ActionsOf(test_parser.out)[1].timestamp_ms = MaxTime
    /\ ActionsOf(parser.out)[1].duration_ms = 0

\* the position of the latest before record with call id X in s, 0 if none
LastBefore(s, X) ==
    LET hits == { i \in 1..Len(s) : IsBefore(s[i], X) }
    IN  IF hits = {} THEN 0 ELSE CHOOSE i \in hits : \A j \in hits : j <= i

\* C30: when two before records with the same call id arrive with no after
\* for that id between them, the later before replaces the earlier in the
\* pending map: the pending entry of a call id is always the latest before
\* record of that id, one entry per call id, and the next after with that
\* id emits exactly one ActionEvent, with the later before's startTime as
\* timestamp_ms, leaving nothing pending from which the earlier before
\* could produce an event.
C30_LaterBeforeReplaces ==
    /\ [] (\A X \in DOMAIN parser.before_events :
              /\ X # ""
              /\ LastBefore(stream, X) # 0
              /\ parser.before_events[X] = stream[LastBefore(stream, X)])
    /\ [][ (/\ Len(stream') = Len(stream) + 1
            /\ stream'[Len(stream')].type = "after"
            /\ stream'[Len(stream')].callId \in DOMAIN parser.before_events) =>
             LET X == stream'[Len(stream')].callId
                 acts == ActionsOf(parser'.out)
             IN  /\ Len(acts) = Len(ActionsOf(parser.out)) + 1
                 /\ acts[Len(acts)].timestamp_ms = stream[LastBefore(stream, X)].time
                 /\ acts[Len(acts)].call_id = X
                 /\ X \notin DOMAIN parser'.before_events ]_vars

\* two befores of c1 with different start times, then an after of c1: one
\* event, stamped with the start time of the second
C30_Witness ==
    /\ Len(stream) = 3
    /\ IsBefore(stream[1], "c1") /\ stream[1].time = 0
    /\ IsBefore(stream[2], "c1") /\ stream[2].time = MaxTime
    /\ IsAfter(stream[3], "c1")
    /\ Len(ActionsOf(parser.out)) = 1
    /\ ActionsOf(parser.out)[1].timestamp_ms = MaxTime
    /\ parser.before_events = << >>

====
